---- MODULE Spec2Model ----
(***************************************************************************)
(* Model of the schedule expander generatePlanSessions                     *)
(* (src/lib/workoutPlan.ts) and of the plan_sessions persistence calls     *)
(* around it (src/lib/planDatabase.ts).                                    *)
(*                                                                         *)
(* Representation of JavaScript values:                                    *)
(*   - an instant (a Date's time value) is a whole number of HOURS since   *)
(*     1970-01-01T00:00Z; every instant the code builds is a whole hour    *)
(*     because the inputs are date-only strings and the zones modelled     *)
(*     have whole-hour offsets;                                            *)
(*   - a date string "YYYY-MM-DD" is the tuple <<y, m, d>>; the empty or   *)
(*     missing string is <<>>;                                             *)
(*   - a missing property (undefined) of string type is Undefined, the     *)
(*     empty string is "";                                                 *)
(*   - an optional number (week_number) is <<>> when absent, <<n>> when    *)
(*     set.                                                                *)
(***************************************************************************)
EXTENDS Integers, Sequences, FiniteSets, TLC

VARIABLES tz, pc, arg, sessions, result, inserts, plan_sessions, hist,
          workout_plans, profile, deletes,
          requests, training_sessions, workout_templates, template_exercises,
          exercises, template_ids

vars == <<tz, pc, arg, sessions, result, inserts, plan_sessions, hist,
          workout_plans, profile, deletes,
          requests, training_sessions, workout_templates, template_exercises,
          exercises, template_ids>>

\* the tables of the workout templates
templateTables == <<workout_templates, template_exercises, exercises, template_ids>>

\* what the plan-session functions and deleteWorkoutPlan never touch
rest == <<requests, training_sessions, templateTables>>

\* what generatePlanSessions never touches
others == <<workout_plans, profile, deletes>>

----------------------------------------------------------------------------
(* Bounds of the model *)

\* number of consecutive calendar days from which start_date and end_date are drawn
MaxSpan == 12

\* longest custom schedule_data array
MaxEntries == 2

\* most calls (generatePlanSessions, deletePlanSessions) completed in one
\* behaviour of SpecSeq
MaxOps == 3

\* most presses of the delete button on one template-details screen
MaxPresses == 2

----------------------------------------------------------------------------
(* Calendar arithmetic of the JavaScript Date object (proleptic Gregorian) *)

Undefined == "undefined"

\* JavaScript truthiness of a string-or-undefined value
Truthy(v) == v # Undefined /\ v # ""

\* Day number (days since 1970-01-01) of the civil date y-m-d: what
\* new Date("YYYY-MM-DD") parses, divided by one day.
DaysFromCivil(y, m, d) ==
  LET yy  == IF m <= 2 THEN y - 1 ELSE y
      era == yy \div 400
      yoe == yy - era * 400
      mp  == IF m > 2 THEN m - 3 ELSE m + 9
      doy == (153 * mp + 2) \div 5 + d - 1
      doe == yoe * 365 + yoe \div 4 - yoe \div 100 + doy
  IN  era * 146097 + doe - 719468

\* Civil date <<y, m, d>> of a day number
CivilFromDays(z) ==
  LET zz  == z + 719468
      era == zz \div 146097
      doe == zz - era * 146097
      yoe == (doe - doe \div 1460 + doe \div 36524 - doe \div 146096) \div 365
      doy == doe - (365 * yoe + yoe \div 4 - yoe \div 100)
      mp  == (5 * doy + 2) \div 153
      d   == doy - (153 * mp + 2) \div 5 + 1
      m   == IF mp < 10 THEN mp + 3 ELSE mp - 9
      y   == yoe + era * 400
  IN  <<IF m <= 2 THEN y + 1 ELSE y, m, d>>

\* new Date("YYYY-MM-DD"): a date-only ISO string is parsed as UTC midnight
ParseDate(s) == DaysFromCivil(s[1], s[2], s[3]) * 24

\* date.toISOString().split('T')[0]: the UTC calendar date of an instant
ToISODate(t) == CivilFromDays(t \div 24)

WeekdayNames ==
  <<"Sunday", "Monday", "Tuesday", "Wednesday", "Thursday", "Friday", "Saturday">>

Weekdays == {WeekdayNames[i] : i \in 1..7}

\* English long weekday name of a day number (1970-01-01 was a Thursday)
WeekdayOfDay(z) == WeekdayNames[((z + 4) % 7) + 1]

----------------------------------------------------------------------------
(* The device's time zone.  A zone is [std, dst, dstStart, dstEnd]: offset  *)
(* in hours east of UTC outside and inside daylight-saving time, which      *)
(* lasts from instant dstStart up to instant dstEnd.                        *)

UTCZone == [name |-> "UTC", std |-> 0, dst |-> 0, dstStart |-> 0, dstEnd |-> 0]

TokyoZone == [name |-> "Asia/Tokyo", std |-> 9, dst |-> 9, dstStart |-> 0, dstEnd |-> 0]

BogotaZone == [name |-> "America/Bogota", std |-> -5, dst |-> -5, dstStart |-> 0, dstEnd |-> 0]

\* 2024: daylight-saving time from 2024-03-10 02:00 EST to 2024-11-03 02:00 EDT
NewYorkZone ==
  [name |-> "America/New_York", std |-> -5, dst |-> -4,
   dstStart |-> DaysFromCivil(2024, 3, 10) * 24 + 7,
   dstEnd   |-> DaysFromCivil(2024, 11, 3) * 24 + 6]

TimeZones == {UTCZone, TokyoZone, BogotaZone, NewYorkZone}

\* offset of local time from UTC at instant t
Offset(z, t) == IF z.dstStart <= t /\ t < z.dstEnd THEN z.dst ELSE z.std

\* LocalTime(t) of ECMAScript: the local "time value" of instant t
LocalTime(z, t) == t + Offset(z, t)

\* UTC(tlocal) of ECMAScript: a local time that occurs twice or never is
\* read with the offset in force before the transition
UTCOfLocal(z, lt) ==
  LET a == lt - z.std
      b == lt - z.dst
      okA == LocalTime(z, a) = lt
      okB == LocalTime(z, b) = lt
  IN  IF okA /\ okB THEN (IF a <= b THEN a ELSE b)
      ELSE IF okA THEN a
      ELSE IF okB THEN b
      ELSE a

\* currentDate.toLocaleDateString('en-US', { weekday: 'long' })
LocalWeekday(z, t) == WeekdayOfDay(LocalTime(z, t) \div 24)

\* currentDate.getDate(): day of the month in local time
GetDate(z, t) == CivilFromDays(LocalTime(z, t) \div 24)[3]

\* currentDate.setDate(currentDate.getDate() + 1): same local clock time on
\* the next local calendar day
NextLocalDay(z, t) == UTCOfLocal(z, LocalTime(z, t) + 24)

\* Math.ceil(n / 7) for a positive integer n
Ceil7(n) == (n + 6) \div 7

----------------------------------------------------------------------------
(* schedule_data (typed any) and the plans given to the expander.           *)
(* A schedule_data value is [shape, weekly, monthly, entries]:              *)
(*   shape "null"    : null / undefined                                     *)
(*   shape "weekly"  : object  weekday name -> template id                  *)
(*   shape "monthly" : object  week number -> object weekday -> template   *)
(*   shape "array"   : array of custom entries                              *)
(* and only the field of its shape is read.                                 *)

NoWeekMap == [d \in Weekdays |-> Undefined]

\* a week of a monthly payload: missing key, or an object of weekdays
NoWeek == [defined |-> FALSE, days |-> NoWeekMap]

NoMonthMap == [w \in 1..5 |-> NoWeek]

SD(shape, weekly, monthly, entries) ==
  [shape |-> shape, weekly |-> weekly, monthly |-> monthly, entries |-> entries]

NullData == SD("null", NoWeekMap, NoMonthMap, <<>>)

WeeklyData(m) == SD("weekly", m, NoMonthMap, <<>>)

MonthlyData(m) == SD("monthly", NoWeekMap, m, <<>>)

ArrayData(es) == SD("array", NoWeekMap, NoMonthMap, es)

\* a custom entry: null, or an object whose date, templateId and label may be missing
NullEntry == [isNull |-> TRUE, date |-> <<>>, templateId |-> Undefined, label |-> Undefined]

Entry(date, templateId, label) ==
  [isNull |-> FALSE, date |-> date, templateId |-> templateId, label |-> label]

\* weeklySchedule[dayOfWeek] on a non-null value: only a weekday-keyed object
\* has the property; an array or a week-keyed object yields undefined
WeeklyLookup(sd, dow) == IF sd.shape = "weekly" THEN sd.weekly[dow] ELSE Undefined

\* monthlySchedule[weekOfMonth] && monthlySchedule[weekOfMonth][dayOfWeek] on a
\* non-null value: a week-keyed object yields its week's weekday entry; an
\* array yields its element at that index, which has no weekday property (and
\* a null element stops the && early); a weekday-keyed object has no such key
MonthlyLookup(sd, w, dow) ==
  IF sd.shape = "monthly" /\ sd.monthly[w].defined
  THEN sd.monthly[w].days[dow]
  ELSE Undefined

Plan(id, type, start, end, sd) ==
  [id |-> id, schedule_type |-> type, start_date |-> start, end_date |-> end,
   schedule_data |-> sd]

\* an unsaved PlanSession as pushed by the expander
\* faulty variant of Session: the monthly rows are created as 'pending'
SessionAlt(planId, templateId, date, dow, week, notes) ==
  [plan_id |-> planId, template_id |-> templateId, scheduled_date |-> date,
   day_of_week |-> dow, week_number |-> week,
   status |-> IF week = <<>> THEN "scheduled" ELSE "pending",
   notes |-> notes]

Session(planId, templateId, date, dow, week, notes) ==
  [plan_id |-> planId, template_id |-> templateId, scheduled_date |-> date,
   day_of_week |-> dow, week_number |-> week, status |-> "scheduled",
   notes |-> notes]

----------------------------------------------------------------------------
(* generatePlanSessions: building the local sessions array                  *)

\* while (currentDate <= endDate)
LoopCond(t, endT) == t <= endT

\* the weekly branch's push
WeeklySession(z, p, t) ==
  Session(p.id, WeeklyLookup(p.schedule_data, LocalWeekday(z, t)),
          ToISODate(t), LocalWeekday(z, t), <<>>, Undefined)

\* the monthly branch's weekOfMonth
WeekOfMonth(z, t) == Ceil7(GetDate(z, t))

\* the monthly branch's push
MonthlySession(z, p, t) ==
  Session(p.id,
          MonthlyLookup(p.schedule_data, WeekOfMonth(z, t), LocalWeekday(z, t)),
          ToISODate(t), LocalWeekday(z, t), <<WeekOfMonth(z, t)>>, Undefined)

\* faulty variant of Push: unshift, the newest row first
PushAlt(acc, row) == <<row>> \o acc

\* sessions.push(row)
Push(acc, row) == Append(acc, row)

\* The result of the building phase: threw tells whether an exception left
\* the try block, sessions is the local array at that point.
Built(threw, ss) == [threw |-> threw, sessions |-> ss]

RECURSIVE WalkWeekly(_, _, _, _, _)
WalkWeekly(z, p, t, endT, acc) ==
  IF ~LoopCond(t, endT) THEN Built(FALSE, acc)
  ELSE IF p.schedule_data.shape = "null" THEN Built(TRUE, acc)
  ELSE WalkWeekly(z, p, NextLocalDay(z, t), endT,
         IF Truthy(WeeklyLookup(p.schedule_data, LocalWeekday(z, t)))
         THEN Push(acc, WeeklySession(z, p, t))
         ELSE acc)

RECURSIVE WalkMonthly(_, _, _, _, _)
WalkMonthly(z, p, t, endT, acc) ==
  IF ~LoopCond(t, endT) THEN Built(FALSE, acc)
  ELSE IF p.schedule_data.shape = "null" THEN Built(TRUE, acc)
  ELSE WalkMonthly(z, p, NextLocalDay(z, t), endT,
         IF Truthy(MonthlyLookup(p.schedule_data, WeekOfMonth(z, t),
                                 LocalWeekday(z, t)))
         THEN Push(acc, MonthlySession(z, p, t))
         ELSE acc)

\* the custom branch's test of one entry
CustomKeeps(e) == e.date # <<>> /\ Truthy(e.templateId)

\* the custom branch's push
CustomSession(p, e) ==
  Session(p.id, e.templateId, e.date, Undefined, <<>>, e.label)

\* customSchedule.forEach(...): reading customDay.date of a null entry throws
RECURSIVE WalkCustom(_, _, _, _)
WalkCustom(p, es, i, acc) ==
  IF i > Len(es) THEN Built(FALSE, acc)
  ELSE IF es[i].isNull THEN Built(TRUE, acc)
  ELSE WalkCustom(p, es, i + 1,
         IF CustomKeeps(es[i]) THEN Push(acc, CustomSession(p, es[i])) ELSE acc)

\* lines 261-324: the sessions array when the insert step is reached, or the
\* exception
\* faulty variant of BuildSessions: a schedule_type that is none of the three
\* is expanded as a weekly plan
BuildSessionsAlt(z, p) ==
  IF p.schedule_type = "monthly"
  THEN WalkMonthly(z, p, ParseDate(p.start_date), ParseDate(p.end_date), <<>>)
  ELSE IF p.schedule_type = "custom"
  THEN (IF p.schedule_data.shape = "array"
        THEN WalkCustom(p, p.schedule_data.entries, 1, <<>>)
        ELSE Built(FALSE, <<>>))
  ELSE WalkWeekly(z, p, ParseDate(p.start_date), ParseDate(p.end_date), <<>>)

BuildSessions(z, p) ==
  IF p.schedule_type = "weekly"
  THEN WalkWeekly(z, p, ParseDate(p.start_date), ParseDate(p.end_date), <<>>)
  ELSE IF p.schedule_type = "monthly"
  THEN WalkMonthly(z, p, ParseDate(p.start_date), ParseDate(p.end_date), <<>>)
  ELSE IF p.schedule_type = "custom"
  THEN (IF p.schedule_data.shape = "array"
        THEN WalkCustom(p, p.schedule_data.entries, 1, <<>>)
        ELSE Built(FALSE, <<>>))
  ELSE Built(FALSE, <<>>)

\* .insert(sessions): the rows handed to the persistence layer
InsertBatch(ss) == ss

\* faulty variant of ShouldInsert: an empty batch is submitted too
ShouldInsertAlt(ss) == Len(ss) >= 0

\* if (sessions.length > 0)
ShouldInsert(ss) == Len(ss) > 0

----------------------------------------------------------------------------
(* Inputs of the model *)

Procs == {1}

\* the calendar days start_date and end_date are drawn from: MaxSpan days
\* from 2024-03-01 (a Friday), across the week-of-month boundary 7/8 and the
\* start of daylight-saving time in New York (2024-03-10)
FirstDay == <<2024, 3, 1>>

LastDay == CivilFromDays(DaysFromCivil(2024, 3, 1) + MaxSpan - 1)

Dates == {CivilFromDays(DaysFromCivil(2024, 3, 1) + i) : i \in 0..(MaxSpan - 1)}

WeekMaps ==
  {[d \in Weekdays |->
      IF d = "Tuesday" THEN a ELSE IF d = "Saturday" THEN b
      ELSE IF d = "Sunday" THEN c ELSE Undefined] :
    a \in {Undefined, "T1"}, b \in {Undefined, "T2"}, c \in {Undefined, "", "T1"}}

TuesdayOnly == [d \in Weekdays |-> IF d = "Tuesday" THEN "T1" ELSE Undefined]

FridayOnly == [d \in Weekdays |-> IF d = "Friday" THEN "T1" ELSE Undefined]

ThursdayOnly == [d \in Weekdays |-> IF d = "Thursday" THEN "T2" ELSE Undefined]

Weekend ==
  [d \in Weekdays |->
     IF d = "Saturday" THEN "T1" ELSE IF d = "Sunday" THEN "T2" ELSE Undefined]

Week(m) == [defined |-> TRUE, days |-> m]

MonthMaps ==
  {[w \in 1..5 |-> IF w = 1 THEN a ELSE IF w = 2 THEN b ELSE NoWeek] :
    a \in {NoWeek, Week(FridayOnly), Week(TuesdayOnly), Week(ThursdayOnly),
           Week(NoWeekMap)},
    b \in {NoWeek, Week(TuesdayOnly), Week(Weekend)}}

EntryValues ==
  {NullEntry,
   Entry(<<2024, 5, 5>>, "X", "Cheat day"),
   Entry(<<2024, 3, 6>>, "T1", Undefined),
   Entry(<<>>, "T1", "no date"),
   Entry(<<2024, 3, 7>>, "", "no template")}

RECURSIVE SeqsUpTo(_, _)
SeqsUpTo(S, n) ==
  IF n = 0 THEN {<<>>}
  ELSE LET shorter == SeqsUpTo(S, n - 1)
       IN  shorter \cup {Append(q, e) : q \in {r \in shorter : Len(r) = n - 1}, e \in S}

EntryLists == SeqsUpTo(EntryValues, MaxEntries)

\* schedule_data of every shape, right or wrong for the declared type
WeeklyPayloads == {WeeklyData(m) : m \in WeekMaps}

MonthlyPayloads == {MonthlyData(m) : m \in MonthMaps}

ArrayPayloads == {ArrayData(es) : es \in EntryLists}

WrongShapes ==
  {NullData, WeeklyData(TuesdayOnly), MonthlyData([w \in 1..5 |-> Week(Weekend)]),
   ArrayData(<<Entry(<<2024, 3, 6>>, "T1", Undefined)>>)}

PayloadsOf(type) ==
  WrongShapes \cup
  (IF type = "weekly" THEN WeeklyPayloads
   ELSE IF type = "monthly" THEN MonthlyPayloads
   ELSE IF type = "custom" THEN ArrayPayloads
   ELSE {})

ScheduleTypes == {"weekly", "monthly", "custom", "daily"}

\* the dates a plan of the type is given: the custom branch never reads them,
\* so custom plans take only the two ends of the window (in either order)
DatesOf(type) == IF type = "custom" THEN {FirstDay, LastDay} ELSE Dates

PlanInputs ==
  UNION {{Plan("P1", ty, s, e, sd) :
            s \in DatesOf(ty), e \in DatesOf(ty), sd \in PayloadsOf(ty)} :
         ty \in ScheduleTypes}

----------------------------------------------------------------------------
(* State                                                                    *)
(*   tz            the device's time zone                                   *)
(*   pc[p]         where invocation p stands: "idle", "insert" (awaiting    *)
(*                 the plan_sessions insert), "delete" (awaiting the delete *)
(*                 of deletePlanSessions) or "done"                         *)
(*   arg[p]        the plan it was called with                              *)
(*   sessions[p]   its local sessions array                                 *)
(*   result[p]     the value its promise resolved to ("none" before)        *)
(*   inserts       every plan_sessions insert issued: who, the batch, and   *)
(*                 how the persistence layer answered                       *)
(*   plan_sessions the rows of table plan_sessions, in insertion order      *)
(*   hist          the completed calls, each with the table before and      *)
(*                 after it                                                 *)
(*   workout_plans the rows of table workout_plans: [id, trainer_id]        *)
(*   profile       what getCurrentUserProfile() resolves to:                *)
(*                 [present, id, role], present FALSE standing for null     *)
(*   deletes       the delete requests of the callers, in the order they    *)
(*                 were answered: [by, table, id, ok]                       *)
(*   requests      the select and insert requests sent by the plan, session *)
(*                 and template functions, in order: [by, table, op]        *)
(*   training_sessions, workout_templates, template_exercises, exercises    *)
(*                 the rows of the tables of these names                    *)

PlanRow(id, trainerId) == [id |-> id, trainer_id |-> trainerId]

Profile(id, role) == [present |-> TRUE, id |-> id, role |-> role]

NoProfile == [present |-> FALSE, id |-> "", role |-> ""]

\* the plans stored: P1 of trainer U1, P2 of trainer U2
StoredPlans == {PlanRow("P1", "U1"), PlanRow("P2", "U2")}

NoPlan == Plan("", "", <<>>, <<>>, NullData)

Init ==
  /\ tz \in TimeZones
  /\ pc = [p \in Procs |-> "idle"]
  /\ arg = [p \in Procs |-> NoPlan]
  /\ sessions = [p \in Procs |-> <<>>]
  /\ result = [p \in Procs |-> "none"]
  /\ inserts = <<>>
  /\ plan_sessions = <<>>
  /\ hist = <<>>
  /\ workout_plans = StoredPlans
  /\ profile = Profile("U1", "trainer")
  /\ deletes = <<>>
  /\ requests = <<>>
  /\ training_sessions = {}
  /\ workout_templates = <<>>
  /\ template_ids = 0
  /\ template_exercises = <<>>
  /\ exercises = <<>>

\* faulty variant of StoreInsert: an upsert, rows already stored are skipped
StoreInsertAlt(table, rows) ==
  table \o SelectSeq(rows, LAMBDA r : \A i \in DOMAIN table : table[i] # r)

\* faulty variant of StoreInsert: the rows of the batch replace the table
StoreInsertOverwrite(table, rows) == rows

\* table plan_sessions: .insert(rows) appends the rows
StoreInsert(table, rows) == table \o rows

\* faulty variant of StoreDelete: the plan_id filter is missing
StoreDeleteAlt(table, planId) == <<>>

\* table plan_sessions: .delete().eq('plan_id', planId)
StoreDelete(table, planId) == SelectSeq(table, LAMBDA r : r.plan_id # planId)

Event(op, plan, ok, pre, post) ==
  [op |-> op, id |-> plan.id, plan |-> plan, ok |-> ok, pre |-> pre, post |-> post]

\* faulty variant of CatchResult: the exception is thrown on to the caller
CatchResultAlt == "rejected"

\* catch (error) { ...; return false; }
CatchResult == "false"

\* the call up to the await of the insert (or to its return when no insert is issued)
Generate(p, pl) ==
  /\ pc[p] = "idle"
  /\ LET b == BuildSessions(tz, pl) IN
       /\ arg' = [arg EXCEPT ![p] = pl]
       /\ sessions' = [sessions EXCEPT ![p] = b.sessions]
       /\ IF b.threw
          THEN /\ pc' = [pc EXCEPT ![p] = "done"]
               /\ result' = [result EXCEPT ![p] = CatchResult]
               /\ inserts' = inserts
               /\ hist' = Append(hist, Event("generate", pl, FALSE, plan_sessions, plan_sessions))
          ELSE IF ShouldInsert(b.sessions)
          THEN /\ pc' = [pc EXCEPT ![p] = "insert"]
               /\ result' = result
               /\ inserts' = Append(inserts, [by |-> p, batch |-> InsertBatch(b.sessions), answer |-> "pending", kept |-> <<>>])
               /\ hist' = hist
          ELSE /\ pc' = [pc EXCEPT ![p] = "done"]
               /\ result' = [result EXCEPT ![p] = "true"]
               /\ inserts' = inserts
               /\ hist' = Append(hist, Event("generate", pl, TRUE, plan_sessions, plan_sessions))
  /\ UNCHANGED <<rest, others, tz, plan_sessions>>

\* faulty variant of PendingOf: the oldest pending insert, whoever issued it
PendingOfAlt(p) == CHOOSE i \in 1..Len(inserts) : inserts[i].answer = "pending"

\* index in inserts of the pending insert of invocation p
PendingOf(p) == CHOOSE i \in 1..Len(inserts) : inserts[i].by = p /\ inserts[i].answer = "pending"

\* the insert's answer, and the rows of its batch the table kept
Answered(p, answer, kept) ==
  [inserts EXCEPT ![PendingOf(p)].answer = answer, ![PendingOf(p)].kept = kept]

\* the insert succeeds: every row of the batch is stored
InsertOk(p) ==
  /\ pc[p] = "insert"
  /\ plan_sessions' = StoreInsert(plan_sessions, inserts[PendingOf(p)].batch)
  /\ inserts' = Answered(p, "ok", inserts[PendingOf(p)].batch)
  /\ pc' = [pc EXCEPT ![p] = "done"]
  /\ result' = [result EXCEPT ![p] = "true"]
  /\ hist' = Append(hist, Event("generate", arg[p], TRUE, plan_sessions, plan_sessions'))
  /\ UNCHANGED <<rest, others, tz, arg, sessions>>

\* faulty variant of ErrorResult: the error is logged and success reported
ErrorResultAlt == "true"

\* if (error) { ...; return false; }
ErrorResult == "false"

\* The rows of a rejected batch that the table may have kept: none (the
\* whole batch rejected, the only case of an empty batch) or the first k
\* rows (a partial rejection).
KeptOnError(batch) ==
  {SubSeq(batch, 1, k) : k \in 0..(IF batch = <<>> THEN 0 ELSE Len(batch) - 1)}

\* the insert answers { error }, the batch rejected in whole or in part: the
\* call returns false and issues no further request
InsertError(p) ==
  /\ pc[p] = "insert"
  /\ \E kept \in KeptOnError(inserts[PendingOf(p)].batch) :
       /\ plan_sessions' = StoreInsert(plan_sessions, kept)
       /\ inserts' = Answered(p, "error", kept)
  /\ pc' = [pc EXCEPT ![p] = "done"]
  /\ result' = [result EXCEPT ![p] = ErrorResult]
  /\ hist' = Append(hist, Event("generate", arg[p], FALSE, plan_sessions, plan_sessions'))
  /\ UNCHANGED <<rest, others, tz, arg, sessions>>

\* the awaited insert rejects (the client throws): the catch block returns false
InsertThrow(p) ==
  /\ pc[p] = "insert"
  /\ inserts' = Answered(p, "threw", <<>>)
  /\ pc' = [pc EXCEPT ![p] = "done"]
  /\ result' = [result EXCEPT ![p] = CatchResult]
  /\ hist' = Append(hist, Event("generate", arg[p], FALSE, plan_sessions, plan_sessions))
  /\ UNCHANGED <<rest, others, tz, arg, sessions, plan_sessions>>

\* One invocation of generatePlanSessions on any plan, in any time zone
Next ==
  \E p \in Procs :
    \/ pc[p] = "idle" /\ \E pl \in PlanInputs : Generate(p, pl)
    \/ InsertOk(p)
    \/ InsertError(p)
    \/ InsertThrow(p)

Spec == Init /\ [][Next]_vars

----------------------------------------------------------------------------
(* Calls in sequence on a store that already holds rows (SpecSeq) *)

SeqPlans ==
  {Plan("P1", "weekly", FirstDay, LastDay, WeeklyData(Weekend)),
   Plan("P1", "custom", FirstDay, LastDay,
        ArrayData(<<Entry(<<2024, 5, 5>>, "X", "Cheat day"),
                    Entry(<<2024, 3, 6>>, "T1", Undefined)>>)),
   Plan("P2", "weekly", FirstDay, LastDay, WeeklyData(TuesdayOnly))}

PlanIds == {"P1", "P2"}

\* plan_sessions before the first call: empty, or holding rows of both plans
InitialStores ==
  {<<>>,
   <<Session("P1", "T9", <<2024, 2, 1>>, "Thursday", <<>>, Undefined),
     Session("P2", "T1", <<2024, 3, 5>>, "Tuesday", <<>>, Undefined),
     Session("P1", "T1", <<2024, 3, 6>>, Undefined, <<>>, Undefined)>>}

\* the zone of the specifications with several calls: west of UTC and with
\* daylight-saving time (the zones are compared in Spec)
SeqZones == {NewYorkZone}

InitSeq ==
  /\ tz \in SeqZones
  /\ pc = [p \in Procs |-> "idle"]
  /\ arg = [p \in Procs |-> NoPlan]
  /\ sessions = [p \in Procs |-> <<>>]
  /\ result = [p \in Procs |-> "none"]
  /\ inserts = <<>>
  /\ plan_sessions \in InitialStores
  /\ hist = <<>>
  /\ workout_plans = StoredPlans
  /\ profile = Profile("U1", "trainer")
  /\ deletes = <<>>
  /\ requests = <<>>
  /\ training_sessions = {}
  /\ workout_templates = <<>>
  /\ template_ids = 0
  /\ template_exercises = <<>>
  /\ exercises = <<>>

\* the caller takes the result; the invocation's locals are gone
Return(p) ==
  /\ pc[p] = "done"
  /\ pc' = [pc EXCEPT ![p] = "idle"]
  /\ arg' = [arg EXCEPT ![p] = NoPlan]
  /\ sessions' = [sessions EXCEPT ![p] = <<>>]
  /\ result' = [result EXCEPT ![p] = "none"]
  /\ inserts' = SelectSeq(inserts, LAMBDA r : r.by # p)
  /\ UNCHANGED <<rest, others, tz, plan_sessions, hist>>

\* deletePlanSessions(planId), up to the await of the delete: the request is
\* sent, the table is as it was, and other calls can run before the answer
DeletePlanSessionsCall(p, planId) ==
  /\ pc[p] = "idle"
  /\ pc' = [pc EXCEPT ![p] = "delete"]
  /\ arg' = [arg EXCEPT ![p] = Plan(planId, "", <<>>, <<>>, NullData)]
  /\ UNCHANGED <<rest, others, tz, sessions, result, inserts, plan_sessions, hist>>

\* the delete is answered without an error: the rows of the plan are gone,
\* deletePlanSessions returns true and its caller goes on
DeleteOk(p) ==
  /\ pc[p] = "delete"
  /\ plan_sessions' = StoreDelete(plan_sessions, arg[p].id)
  /\ hist' = Append(hist, Event("delete", arg[p], TRUE, plan_sessions, plan_sessions'))
  /\ pc' = [pc EXCEPT ![p] = "idle"]
  /\ arg' = [arg EXCEPT ![p] = NoPlan]
  /\ UNCHANGED <<rest, others, tz, sessions, result, inserts>>

\* the delete answers { error } or throws: nothing is removed,
\* deletePlanSessions returns false
DeleteFail(p) ==
  /\ pc[p] = "delete"
  /\ hist' = Append(hist, Event("delete", arg[p], FALSE, plan_sessions, plan_sessions))
  /\ pc' = [pc EXCEPT ![p] = "idle"]
  /\ arg' = [arg EXCEPT ![p] = NoPlan]
  /\ UNCHANGED <<rest, others, tz, sessions, result, inserts, plan_sessions>>

NextSeq ==
  \/ \E p \in Procs, pl \in SeqPlans : Len(hist) < MaxOps /\ Generate(p, pl)
  \/ \E p \in Procs : InsertOk(p)
  \/ \E p \in Procs : InsertError(p)
  \/ \E p \in Procs : InsertThrow(p)
  \/ \E p \in Procs : Return(p)
  \/ \E p \in Procs, id \in PlanIds : Len(hist) < MaxOps /\ DeletePlanSessionsCall(p, id)
  \/ \E p \in Procs : DeleteOk(p)
  \/ \E p \in Procs : DeleteFail(p)

SpecSeq == InitSeq /\ [][NextSeq]_vars

----------------------------------------------------------------------------
(* Two callers at once: each may call deletePlanSessions and then calls     *)
(* generatePlanSessions (the regenerate workflow), or calls                 *)
(* generatePlanSessions only.  The awaits are the points where the other    *)
(* caller's requests can come in between.                                   *)

Callers == {1, 2}

InitConc ==
  /\ tz \in SeqZones
  /\ pc = [p \in Callers |-> "idle"]
  /\ arg = [p \in Callers |-> NoPlan]
  /\ sessions = [p \in Callers |-> <<>>]
  /\ result = [p \in Callers |-> "none"]
  /\ inserts = <<>>
  /\ plan_sessions \in InitialStores
  /\ hist = <<>>
  /\ workout_plans = StoredPlans
  /\ profile = Profile("U1", "trainer")
  /\ deletes = <<>>
  /\ requests = <<>>
  /\ training_sessions = {}
  /\ workout_templates = <<>>
  /\ template_ids = 0
  /\ template_exercises = <<>>
  /\ exercises = <<>>

DeleteRequest(p, table, id, ok) == [by |-> p, table |-> table, id |-> id, ok |-> ok]

\* the delete requests caller p issued, in order
DeletesBy(p) == SelectSeq(deletes, LAMBDA d : d.by = p)

\* deletePlanSessions(planId) called by p before its generatePlanSessions,
\* answered: the delete succeeds (returns true) or fails (returns false,
\* nothing removed); the caller goes on to generatePlanSessions
DeleteSessionsBy(p, ok) ==
  /\ pc[p] = "delete"
  /\ plan_sessions' = IF ok THEN StoreDelete(plan_sessions, arg[p].id) ELSE plan_sessions
  /\ deletes' = Append(deletes, DeleteRequest(p, "plan_sessions", arg[p].id, ok))
  /\ hist' = Append(hist, Event("delete", arg[p], ok, plan_sessions, plan_sessions'))
  /\ pc' = [pc EXCEPT ![p] = "idle"]
  /\ arg' = [arg EXCEPT ![p] = NoPlan]
  /\ UNCHANGED <<rest, workout_plans, profile, tz, sessions, result, inserts>>

\* the plan a caller that deleted the sessions of planId goes on to expand
WorkflowPlans(p) ==
  IF DeletesBy(p) = <<>> THEN SeqPlans
  ELSE {pl \in SeqPlans : pl.id = DeletesBy(p)[1].id}

NextConc ==
  \/ \E p \in Callers : pc[p] = "idle" /\ \E pl \in WorkflowPlans(p) : Generate(p, pl)
  \/ \E p \in Callers : InsertOk(p)
  \/ \E p \in Callers : InsertError(p)
  \/ \E p \in Callers : InsertThrow(p)
  \/ \E p \in Callers, id \in PlanIds :
       DeletesBy(p) = <<>> /\ DeletePlanSessionsCall(p, id)
  \/ \E p \in Callers : DeleteSessionsBy(p, TRUE)
  \/ \E p \in Callers : DeleteSessionsBy(p, FALSE)

SpecConc == InitConc /\ [][NextConc]_vars

----------------------------------------------------------------------------
(* Vocabulary of the properties *)

\* invocation p has left the building phase (lines 261-324)
Past(p) == pc[p] \in {"insert", "done"}

\* the inserts invocation p issued, in order
InsertsBy(p) == SelectSeq(inserts, LAMBDA r : r.by = p)

DayNo(s) == DaysFromCivil(s[1], s[2], s[3])

\* the calendar days start_date .. end_date, both ends included
RangeDays(pl) == DayNo(pl.start_date)..DayNo(pl.end_date)

\* order of "YYYY-MM-DD" strings
DateLT(a, b) ==
  \/ a[1] < b[1]
  \/ a[1] = b[1] /\ a[2] < b[2]
  \/ a[1] = b[1] /\ a[2] = b[2] /\ a[3] < b[3]

DateLE(a, b) == a = b \/ DateLT(a, b)

\* how many sessions of ss are scheduled on date
CountOn(ss, date) == Cardinality({i \in DOMAIN ss : ss[i].scheduled_date = date})

----------------------------------------------------------------------------
(* deleteWorkoutPlan(planId) of planDatabase.ts, by two callers at once.    *)
(* pc of a caller: "idle", "dwp_profile" (awaiting getCurrentUserProfile),  *)
(* "dwp_sessions" (awaiting deletePlanSessions), "dwp_plan" (awaiting the   *)
(* delete on workout_plans), "done".                                        *)

\* what getCurrentUserProfile() can resolve to: null, the trainer who owns P1,
\* the trainer who owns P2, a client
Profiles ==
  {NoProfile, Profile("U1", "trainer"), Profile("U2", "trainer"), Profile("U3", "client")}

\* the ids deleteWorkoutPlan is called with: two stored plans and one unknown
DeleteIds == {"P1", "P2", "P0"}

InitDel ==
  /\ tz = UTCZone
  /\ pc = [p \in Callers |-> "idle"]
  /\ arg = [p \in Callers |-> NoPlan]
  /\ sessions = [p \in Callers |-> <<>>]
  /\ result = [p \in Callers |-> "none"]
  /\ inserts = <<>>
  /\ plan_sessions \in InitialStores
  /\ hist = <<>>
  /\ workout_plans = StoredPlans
  /\ profile \in Profiles
  /\ deletes = <<>>
  /\ requests = <<>>
  /\ training_sessions = {}
  /\ workout_templates = <<>>
  /\ template_ids = 0
  /\ template_exercises = <<>>
  /\ exercises = <<>>

\* the call, up to the await of getCurrentUserProfile()
DwpCall(p, planId) ==
  /\ pc[p] = "idle"
  /\ pc' = [pc EXCEPT ![p] = "dwp_profile"]
  /\ arg' = [arg EXCEPT ![p] = Plan(planId, "", <<>>, <<>>, NullData)]
  /\ UNCHANGED <<rest, tz, sessions, result, inserts, plan_sessions, hist,
                 workout_plans, profile, deletes>>

\* faulty variant of NotTrainer: only a missing profile is turned away
NotTrainerAlt(pr) == ~pr.present

\* if (!profile || profile.role !== 'trainer')
NotTrainer(pr) == ~pr.present \/ pr.role # "trainer"

\* faulty variant of AfterRoleCheck: the sessions are not deleted first
AfterRoleCheckAlt == "dwp_plan"

\* what a trainer's call does next: await deletePlanSessions(planId)
AfterRoleCheck == "dwp_sessions"

\* the profile arrives: a caller who is not a trainer gets false at once
DwpProfile(p) ==
  /\ pc[p] = "dwp_profile"
  /\ IF NotTrainer(profile)
     THEN /\ pc' = [pc EXCEPT ![p] = "done"]
          /\ result' = [result EXCEPT ![p] = "false"]
     ELSE /\ pc' = [pc EXCEPT ![p] = AfterRoleCheck]
          /\ result' = result
  /\ UNCHANGED <<rest, tz, arg, sessions, inserts, plan_sessions, hist,
                 workout_plans, profile, deletes>>

\* deletePlanSessions(planId) is awaited, its result dropped: the delete
\* succeeded, or it failed and removed nothing
DwpSessions(p, ok) ==
  /\ pc[p] = "dwp_sessions"
  /\ plan_sessions' = IF ok THEN StoreDelete(plan_sessions, arg[p].id) ELSE plan_sessions
  /\ deletes' = Append(deletes, DeleteRequest(p, "plan_sessions", arg[p].id, ok))
  /\ pc' = [pc EXCEPT ![p] = "dwp_plan"]
  /\ UNCHANGED <<rest, tz, arg, sessions, result, inserts, hist, workout_plans, profile>>

\* table workout_plans: .delete().eq('id', planId).eq('trainer_id', trainerId)
PlanDelete(table, planId, trainerId) ==
  {r \in table : ~(r.id = planId /\ r.trainer_id = trainerId)}

\* the delete on workout_plans succeeds (whether or not a row matched):
\* returns true
DwpPlanOk(p) ==
  /\ pc[p] = "dwp_plan"
  /\ workout_plans' = PlanDelete(workout_plans, arg[p].id, profile.id)
  /\ deletes' = Append(deletes, DeleteRequest(p, "workout_plans", arg[p].id, TRUE))
  /\ pc' = [pc EXCEPT ![p] = "done"]
  /\ result' = [result EXCEPT ![p] = "true"]
  /\ UNCHANGED <<rest, tz, arg, sessions, inserts, plan_sessions, hist, profile>>

\* the delete on workout_plans answers { error } or throws: returns false
DwpPlanFail(p) ==
  /\ pc[p] = "dwp_plan"
  /\ deletes' = Append(deletes, DeleteRequest(p, "workout_plans", arg[p].id, FALSE))
  /\ pc' = [pc EXCEPT ![p] = "done"]
  /\ result' = [result EXCEPT ![p] = "false"]
  /\ UNCHANGED <<rest, tz, arg, sessions, inserts, plan_sessions, hist, workout_plans, profile>>

NextDel ==
  \/ \E p \in Callers, id \in DeleteIds : DwpCall(p, id)
  \/ \E p \in Callers : DwpProfile(p)
  \/ \E p \in Callers : DwpSessions(p, TRUE)
  \/ \E p \in Callers : DwpSessions(p, FALSE)
  \/ \E p \in Callers : DwpPlanOk(p)
  \/ \E p \in Callers : DwpPlanFail(p)

SpecDel == InitDel /\ [][NextDel]_vars

----------------------------------------------------------------------------
(* createWorkoutPlan and getWorkoutPlans of planDatabase.ts and             *)
(* getTrainerTrainingSessions of trainingSessionQueries.ts: one call by one *)
(* caller.  arg holds the call's argument, result what the call returns.    *)

Request(p, table, op) == [by |-> p, table |-> table, op |-> op]

\* { ...a, ...b }: the properties of a, overridden and extended by those of b
Spread(a, b) ==
  [k \in DOMAIN a \cup DOMAIN b |-> IF k \in DOMAIN b THEN b[k] ELSE a[k]]

\* a row of workout_plans with the columns the three functions read or write
FullPlanRow(id, trainerId, clientId, status) ==
  [id |-> id, trainer_id |-> trainerId, client_id |-> clientId, status |-> status]

ApiPlans ==
  {FullPlanRow("P1", "U1", "U3", "active"),
   FullPlanRow("P2", "U2", "U3", "draft"),
   FullPlanRow("P3", "U1", "U4", "draft"),
   FullPlanRow("P4", "U2", "U4", "active")}

\* what getCurrentUserProfile() can resolve to here: also a role that is
\* neither trainer nor client
ApiProfiles == Profiles \cup {Profile("U5", "admin")}

\* a JSON value held by a column or passed as an argument is its text;
\* EmptyObject is the object literal {}
EmptyObject == "{}"

\* the values JavaScript takes for false in `x || y` and `if (x)`
Falsy(v) == v \in {Undefined, "null", "", "0", "false"}

\* the columns of training_sessions the completing functions write, null in
\* a row that was not completed
NullColumns ==
  [status |-> "scheduled", session_data |-> EmptyObject,
   completion_data |-> EmptyObject, exercises_completed |-> "null",
   trainer_notes |-> "null", session_rating |-> "null", duration_minutes |-> "null"]

TrainingRow(id, trainerId, clientId, date) ==
  Spread(NullColumns,
         [id |-> id, trainer_id |-> trainerId, client_id |-> clientId,
          scheduled_date |-> date])

ApiTrainingSessions ==
  {TrainingRow("S1", "U1", "U3", <<2024, 3, 9>>),
   TrainingRow("S2", "U1", "U4", <<2024, 3, 2>>),
   TrainingRow("S3", "U2", "U3", <<2024, 3, 5>>),
   TrainingRow("S4", "U1", "U3", <<2024, 3, 5>>)}

\* plan_sessions before the call: rows of both plans
ApiPlanSessions ==
  <<Session("P1", "T9", <<2024, 2, 1>>, "Thursday", <<>>, Undefined),
    Session("P2", "T1", <<2024, 3, 5>>, "Tuesday", <<>>, Undefined),
    Session("P1", "T1", <<2024, 3, 6>>, Undefined, <<>>, Undefined)>>

InitApi ==
  /\ tz = UTCZone
  /\ pc = [p \in Procs |-> "idle"]
  /\ arg = [p \in Procs |-> NoPlan]
  /\ sessions = [p \in Procs |-> <<>>]
  /\ result = [p \in Procs |-> "none"]
  /\ inserts = <<>>
  /\ plan_sessions = ApiPlanSessions
  /\ hist = <<>>
  /\ workout_plans = ApiPlans
  /\ profile \in ApiProfiles
  /\ deletes = <<>>
  /\ requests = <<>>
  /\ training_sessions = ApiTrainingSessions
  /\ workout_templates = <<>>
  /\ template_ids = 0
  /\ template_exercises = <<>>
  /\ exercises = <<>>

\* what no action of these three functions changes
apiFrame == <<tz, sessions, inserts, plan_sessions, hist, profile, deletes,
              training_sessions, templateTables>>

\* planData as the caller passes it: the declared fields, and possibly a
\* trainer_id or a status of its own (the type is not checked at run time)
PlanDataValues ==
  LET base == [client_id |-> "U3", name |-> "Plan", schedule_type |-> "weekly"]
  IN  {base,
       Spread(base, [trainer_id |-> "U2"]),
       Spread(base, [status |-> "active"]),
       Spread(base, [trainer_id |-> "U2", status |-> "completed", client_id |-> "U4"])}

\* faulty variant of InsertedPlan: planData spread last
InsertedPlanAlt(planData, pr) ==
  Spread([trainer_id |-> pr.id, status |-> "draft"], planData)

\* { ...planData, trainer_id: profile.id, status: 'draft' }
InsertedPlan(planData, pr) ==
  Spread(planData, [trainer_id |-> pr.id, status |-> "draft"])

\* what createWorkoutPlan returns: null, or the row as stored
Null == {}

Returned(row) == {row}

\* createWorkoutPlan(planData), up to the await of getCurrentUserProfile()
CwpCall(p, planData) ==
  /\ pc[p] = "idle"
  /\ pc' = [pc EXCEPT ![p] = "cwp_profile"]
  /\ arg' = [arg EXCEPT ![p] = planData]
  /\ UNCHANGED <<apiFrame, result, workout_plans, requests>>

\* the profile arrives: without a trainer profile the call returns null;
\* otherwise the insert is sent
CwpProfile(p) ==
  /\ pc[p] = "cwp_profile"
  /\ IF NotTrainer(profile)
     THEN /\ pc' = [pc EXCEPT ![p] = "done"]
          /\ result' = [result EXCEPT ![p] = Null]
          /\ requests' = requests
     ELSE /\ pc' = [pc EXCEPT ![p] = "cwp_insert"]
          /\ result' = result
          /\ requests' = Append(requests, Request(p, "workout_plans", "insert"))
  /\ UNCHANGED <<apiFrame, arg, workout_plans>>

\* the id the table gives the inserted row
NewPlanId == "P9"

\* the insert succeeds: the row is stored and returned
CwpInsertOk(p) ==
  /\ pc[p] = "cwp_insert"
  /\ LET row == Spread(InsertedPlan(arg[p], profile), [id |-> NewPlanId]) IN
       /\ workout_plans' = workout_plans \cup {row}
       /\ result' = [result EXCEPT ![p] = Returned(row)]
  /\ pc' = [pc EXCEPT ![p] = "done"]
  /\ UNCHANGED <<apiFrame, arg, requests>>

\* the insert answers { error } or throws: the call returns null
CwpInsertFail(p) ==
  /\ pc[p] = "cwp_insert"
  /\ pc' = [pc EXCEPT ![p] = "done"]
  /\ result' = [result EXCEPT ![p] = Null]
  /\ UNCHANGED <<apiFrame, arg, workout_plans, requests>>

\* getWorkoutPlans(), up to the await of getCurrentUserProfile()
GwpCall(p) ==
  /\ pc[p] = "idle"
  /\ pc' = [pc EXCEPT ![p] = "gwp_profile"]
  /\ arg' = [arg EXCEPT ![p] = [fn |-> "getWorkoutPlans"]]
  /\ UNCHANGED <<apiFrame, result, workout_plans, requests>>

\* faulty variant of PlanQuery: the filter is not applied
PlanQueryAlt(table, column, id) == table

\* table workout_plans: .select('*').eq(column, id)
PlanQuery(table, column, id) == {r \in table : r[column] = id}

\* the column the plans are filtered on: trainer_id for a trainer, client_id
\* for a client
PlanFilter(role) == IF role = "trainer" THEN "trainer_id" ELSE "client_id"

\* the profile arrives: with no profile, or a role that is neither trainer
\* nor client, the call returns [] and the query is never sent
GwpProfile(p) ==
  /\ pc[p] = "gwp_profile"
  /\ IF profile.present /\ profile.role \in {"trainer", "client"}
     THEN /\ pc' = [pc EXCEPT ![p] = "gwp_query"]
          /\ result' = result
          /\ requests' = Append(requests, Request(p, "workout_plans", "select"))
     ELSE /\ pc' = [pc EXCEPT ![p] = "done"]
          /\ result' = [result EXCEPT ![p] = {}]
          /\ requests' = requests
  /\ UNCHANGED <<apiFrame, arg, workout_plans>>

\* the query answers with the rows that pass the filter
GwpQueryOk(p) ==
  /\ pc[p] = "gwp_query"
  /\ result' = [result EXCEPT ![p] =
                  PlanQuery(workout_plans, PlanFilter(profile.role), profile.id)]
  /\ pc' = [pc EXCEPT ![p] = "done"]
  /\ UNCHANGED <<apiFrame, arg, workout_plans, requests>>

\* the query answers { error } or throws: the call returns []
GwpQueryFail(p) ==
  /\ pc[p] = "gwp_query"
  /\ result' = [result EXCEPT ![p] = {}]
  /\ pc' = [pc EXCEPT ![p] = "done"]
  /\ UNCHANGED <<apiFrame, arg, workout_plans, requests>>

\* the parameters of getTrainerTrainingSessions: trainerId, startDate and
\* endDate; the clientId its query names is none of them, nor a name of the
\* module
ClientIdInScope == FALSE

\* a date argument that was left out
NoDate == <<>>

\* the arguments of getTrainerTrainingSessions: startDate and endDate may be
\* left out
SessionArgs ==
  {[trainerId |-> t, startDate |-> s, endDate |-> e] :
     t \in {"U1", "U2", "U7"},
     s \in {NoDate, <<2024, 3, 3>>, <<2024, 3, 5>>},
     e \in {NoDate, <<2024, 3, 5>>, <<2024, 3, 8>>}}

\* getTrainerTrainingSessions(trainerId, startDate, endDate): reading the
\* undeclared clientId while the query is built throws a ReferenceError, no
\* request is sent and the catch block returns []
GttsCall(p, a) ==
  /\ pc[p] = "idle"
  /\ ~ClientIdInScope
  /\ arg' = [arg EXCEPT ![p] = a]
  /\ result' = [result EXCEPT ![p] = <<>>]
  /\ pc' = [pc EXCEPT ![p] = "done"]
  /\ UNCHANGED <<apiFrame, workout_plans, requests>>

----------------------------------------------------------------------------
(* The functions that write a table by id or as given, with no profile and  *)
(* no role check: saveWorkoutPlan, updateWorkoutPlan, deleteWorkoutPlan,    *)
(* savePlanSession and updatePlanSession of workoutPlan.ts,                 *)
(* updateWorkoutPlan and createPlanSessions of planDatabase.ts, and         *)
(* createTrainingSession, updateTrainingSessionData and                     *)
(* completeTrainingSession of trainingSessionQueries.ts.  Each sends its    *)
(* request at once and awaits the answer.  (The column updated_at, set to   *)
(* the time of the call, is not among the columns of the rows.)             *)

\* what none of these functions changes
writerFrame == <<tz, sessions, inserts, hist, profile, deletes, templateTables>>

\* the call up to its await: the request on the table is sent
Send(p, await, a, table, op) ==
  /\ pc[p] = "idle"
  /\ pc' = [pc EXCEPT ![p] = await]
  /\ arg' = [arg EXCEPT ![p] = a]
  /\ requests' = Append(requests, Request(p, table, op))
  /\ UNCHANGED <<writerFrame, result, workout_plans, plan_sessions, training_sessions>>

\* the awaited request is answered and the call returns res
Answer(p, await, res) ==
  /\ pc[p] = await
  /\ pc' = [pc EXCEPT ![p] = "done"]
  /\ result' = [result EXCEPT ![p] = res]
  /\ UNCHANGED <<writerFrame, arg, requests>>

\* the rows of the table with the id
Matching(table, id) == {r \in table : r.id = id}

\* .update(updates).eq('id', id) on a table
UpdateRow(table, id, updates) ==
  {IF r.id = id THEN Spread(r, updates) ELSE r : r \in table}

\* the plans saveWorkoutPlan is given: trainer_id and status are the caller's choice
SavedPlans ==
  {[client_id |-> "U3", name |-> "Other", schedule_type |-> "weekly",
    status |-> "active", trainer_id |-> "U7"],
   [client_id |-> "U4", name |-> "Mine", schedule_type |-> "custom",
    status |-> "draft", trainer_id |-> "U1"]}

\* saveWorkoutPlan(plan), up to the await of the insert
SwpCall(p, plan) ==
  /\ pc[p] = "idle"
  /\ Send(p, "swp_insert", [fn |-> "saveWorkoutPlan", plan |-> plan], "workout_plans", "insert")

\* the insert answers: the plan is stored as given and returned, or, on
\* { error } or a throw, null is returned
SwpInsert(p, ok) ==
  /\ pc[p] = "swp_insert"
  /\ LET row == Spread(arg[p].plan, [id |-> NewPlanId]) IN
       /\ Answer(p, "swp_insert", IF ok THEN Returned(row) ELSE Null)
       /\ workout_plans' = IF ok THEN workout_plans \cup {row} ELSE workout_plans
  /\ UNCHANGED <<plan_sessions, training_sessions>>

\* the two modules that export an updateWorkoutPlan, with the same body
UpdateModules == {"workoutPlan", "planDatabase"}

\* the ids the functions are called with: stored plans and an unknown one
WriterPlanIds == {"P1", "P2", "P0"}

PlanUpdates == {[status |-> "completed", trainer_id |-> "U2"], [client_id |-> "U4"]}

\* updateWorkoutPlan(id, updates), up to the await of the update
UwpCall(p, module, id, updates) ==
  /\ pc[p] = "idle"
  /\ Send(p, "uwp_update",
          [fn |-> "updateWorkoutPlan", module |-> module, id |-> id, updates |-> updates],
          "workout_plans", "update")

\* .update(...).eq('id', id).select().single() answers: the row with the id
\* takes the updates and is returned; with no such row, an { error } or a
\* throw, null is returned
UwpUpdate(p, ok) ==
  /\ pc[p] = "uwp_update"
  /\ LET hit == Matching(workout_plans, arg[p].id) IN
       IF ok /\ hit # {}
       THEN /\ Answer(p, "uwp_update", {Spread(r, arg[p].updates) : r \in hit})
            /\ workout_plans' = UpdateRow(workout_plans, arg[p].id, arg[p].updates)
       ELSE /\ Answer(p, "uwp_update", Null)
            /\ workout_plans' = workout_plans
  /\ UNCHANGED <<plan_sessions, training_sessions>>

\* deleteWorkoutPlan(id) of workoutPlan.ts, up to the await of the delete
DeleteByIdCall(p, id) ==
  /\ pc[p] = "idle"
  /\ Send(p, "dbi_delete", [fn |-> "deleteWorkoutPlan", module |-> "workoutPlan", id |-> id],
          "workout_plans", "delete")

\* .delete().eq('id', id) answers: the row with the id is gone, whoever owns
\* it, and true is returned; on { error } or a throw false is returned
DeleteById(p, ok) ==
  /\ pc[p] = "dbi_delete"
  /\ Answer(p, "dbi_delete", IF ok THEN "true" ELSE "false")
  /\ workout_plans' =
       IF ok THEN workout_plans \ Matching(workout_plans, arg[p].id) ELSE workout_plans
  /\ UNCHANGED <<plan_sessions, training_sessions>>

\* the arrays createPlanSessions is given: two rows, one row, none
SessionBatches ==
  {<<>>,
   <<Session("P1", "T1", <<2024, 3, 20>>, Undefined, <<>>, Undefined),
     Session("P1", "T1", <<2024, 3, 21>>, Undefined, <<>>, Undefined)>>,
   <<Session("P2", "T2", <<2024, 3, 22>>, "Friday", <<>>, "note")>>}

\* createPlanSessions(sessions), up to the await of the insert
CpsCall(p, batch) ==
  /\ pc[p] = "idle"
  /\ Send(p, "cps_insert", [fn |-> "createPlanSessions", sessions |-> batch],
          "plan_sessions", "insert")

\* the insert answers without an error: the rows are stored, true is returned
CpsInsertOk(p) ==
  /\ pc[p] = "cps_insert"
  /\ Answer(p, "cps_insert", "true")
  /\ plan_sessions' = StoreInsert(plan_sessions, arg[p].sessions)
  /\ UNCHANGED <<workout_plans, training_sessions>>

\* the insert answers { error } (the batch rejected in whole or in part) or
\* throws: false is returned
CpsInsertFail(p) ==
  /\ pc[p] = "cps_insert"
  /\ Answer(p, "cps_insert", "false")
  /\ \E kept \in KeptOnError(arg[p].sessions) :
       plan_sessions' = StoreInsert(plan_sessions, kept)
  /\ UNCHANGED <<workout_plans, training_sessions>>

\* savePlanSession(session), up to the await of the insert
SpsCall(p, session) ==
  /\ pc[p] = "idle"
  /\ Send(p, "sps_insert", [fn |-> "savePlanSession", session |-> session],
          "plan_sessions", "insert")

\* .insert(session).select().single() answers: the row is stored and
\* returned, or, on { error } or a throw, null is returned
SpsInsert(p, ok) ==
  /\ pc[p] = "sps_insert"
  /\ Answer(p, "sps_insert", IF ok THEN Returned(arg[p].session) ELSE Null)
  /\ plan_sessions' =
       IF ok THEN StoreInsert(plan_sessions, <<arg[p].session>>) ELSE plan_sessions
  /\ UNCHANGED <<workout_plans, training_sessions>>

\* the id of a row of plan_sessions: its place in the table at the call (one
\* caller: the table is the same at the answer); 4 is the id of no row
SessionRowIds == {1, 4}

SessionUpdates ==
  {[status |-> "completed", scheduled_date |-> <<2024, 4, 1>>], [plan_id |-> "P2"]}

\* updatePlanSession(id, updates), up to the await of the update
UpsCall(p, id, updates) ==
  /\ pc[p] = "idle"
  /\ Send(p, "ups_update", [fn |-> "updatePlanSession", id |-> id, updates |-> updates],
          "plan_sessions", "update")

\* .update(...).eq('id', id).select().single() answers: the row takes the
\* updates (status, scheduled_date, plan_id, whatever is given) and is
\* returned; with no such row, an { error } or a throw, null is returned
UpsUpdate(p, ok) ==
  /\ pc[p] = "ups_update"
  /\ LET id == arg[p].id IN
       IF ok /\ id \in DOMAIN plan_sessions
       THEN /\ Answer(p, "ups_update", Returned(Spread(plan_sessions[id], arg[p].updates)))
            /\ plan_sessions' =
                 [plan_sessions EXCEPT ![id] = Spread(plan_sessions[id], arg[p].updates)]
       ELSE /\ Answer(p, "ups_update", Null)
            /\ plan_sessions' = plan_sessions
  /\ UNCHANGED <<workout_plans, training_sessions>>

\* the sessionData createTrainingSession is given: without a session_data,
\* with an object, with null or with the empty string for it; with or
\* without a client
NewTrainingSessions ==
  {[client_id |-> "U3", trainer_id |-> "U1", scheduled_date |-> <<2024, 3, 5>>,
    status |-> "scheduled"],
   [client_id |-> "", trainer_id |-> "U2", scheduled_date |-> <<2024, 3, 7>>,
    status |-> "confirmed", session_data |-> "{a:1}"],
   [client_id |-> "U3", trainer_id |-> "U2", scheduled_date |-> <<2024, 3, 8>>,
    status |-> "scheduled", session_data |-> "null", completion_data |-> ""]}

\* sessionData.session_data || {}: the value of the property unless it is
\* missing or falsy
OrEmpty(data, key) ==
  IF key \in DOMAIN data /\ ~Falsy(data[key]) THEN data[key] ELSE EmptyObject

\* { ...sessionData, session_data: ... || {}, completion_data: ... || {} }
InsertedSession(sessionData) ==
  Spread(sessionData,
         [session_data |-> OrEmpty(sessionData, "session_data"),
          completion_data |-> OrEmpty(sessionData, "completion_data")])

\* the id the table gives the inserted row
NewSessionId == "S9"

\* createTrainingSession(sessionData), up to the await of the insert
CtsCall(p, sessionData) ==
  /\ pc[p] = "idle"
  /\ Send(p, "cts_insert", [fn |-> "createTrainingSession", sessionData |-> sessionData],
          "training_sessions", "insert")

\* .insert(...).select('*').maybeSingle() answers.  "ok": the row is stored
\* and comes back, the two profiles are asked for; "nodata": the row is
\* stored and does not come back, null is returned; "error" (or a throw):
\* null is returned
CtsInsert(p, outcome) ==
  /\ pc[p] = "cts_insert"
  /\ LET row == Spread(Spread(NullColumns, InsertedSession(arg[p].sessionData)),
                       [id |-> NewSessionId]) IN
       /\ training_sessions' =
            IF outcome = "error" THEN training_sessions ELSE training_sessions \cup {row}
       /\ IF outcome = "ok"
          THEN /\ pc' = [pc EXCEPT ![p] = "cts_profiles"]
               /\ arg' = [arg EXCEPT ![p] = Spread(arg[p], [session |-> row])]
               /\ result' = result
               /\ requests' =
                    requests
                    \o (IF row.client_id # "" THEN <<Request(p, "profiles", "select")>> ELSE <<>>)
                    \o (IF row.trainer_id # "" THEN <<Request(p, "profiles", "select")>> ELSE <<>>)
          ELSE /\ pc' = [pc EXCEPT ![p] = "done"]
               /\ arg' = arg
               /\ result' = [result EXCEPT ![p] = Null]
               /\ requests' = requests
  /\ UNCHANGED <<writerFrame, workout_plans, plan_sessions>>

\* what a profile fetch gives: { id, ... } of the profile, or null when the
\* id is empty, no row has it or the fetch failed
ProfileData(id, found) == IF id # "" /\ found THEN Returned([id |-> id]) ELSE Null

\* both profile fetches are answered: the session is returned with its
\* client and trainer
CtsProfiles(p) ==
  /\ pc[p] = "cts_profiles"
  /\ \E c, t \in BOOLEAN :
       Answer(p, "cts_profiles",
              Returned(Spread(arg[p].session,
                              [client |-> ProfileData(arg[p].session.client_id, c),
                               trainer |-> ProfileData(arg[p].session.trainer_id, t)])))
  /\ UNCHANGED <<workout_plans, plan_sessions, training_sessions>>

\* one of the profile fetches throws: the catch block returns null, the row
\* stays stored
CtsProfilesThrow(p) ==
  /\ pc[p] = "cts_profiles"
  /\ Answer(p, "cts_profiles", Null)
  /\ UNCHANGED <<workout_plans, plan_sessions, training_sessions>>

\* the ids the training-session functions are called with: a stored row and
\* an unknown one
TrainingIds == {"S1", "S0"}

\* completionData of updateTrainingSessionData: left out, null, or an object
OptionalCompletion == {Undefined, "null", "{b:2}"}

\* updateData: session_data, and with a completionData also completion_data
\* and status 'completed'
UpdateData(sessionData, completionData) ==
  IF ~Falsy(completionData)
  THEN [session_data |-> sessionData,
        completion_data |-> completionData,
        status |-> "completed"]
  ELSE [session_data |-> sessionData]

\* updateTrainingSessionData(sessionId, sessionData, completionData?), up to
\* the await of the update
UtsCall(p, id, completionData) ==
  /\ pc[p] = "idle"
  /\ Send(p, "uts_update",
          [fn |-> "updateTrainingSessionData", id |-> id,
           sessionData |-> "{a:1}", completionData |-> completionData],
          "training_sessions", "update")

\* .update(updateData).eq('id', sessionId) answers: the row with the id, if
\* there is one, takes updateData and true is returned; on { error } or a
\* throw false is returned
UtsUpdate(p, ok) ==
  /\ pc[p] = "uts_update"
  /\ Answer(p, "uts_update", IF ok THEN "true" ELSE "false")
  /\ training_sessions' =
       IF ok
       THEN UpdateRow(training_sessions, arg[p].id,
                      UpdateData(arg[p].sessionData, arg[p].completionData))
       ELSE training_sessions
  /\ UNCHANGED <<workout_plans, plan_sessions>>

\* the columns completeTrainingSession copies out of completionData
CompletedColumns ==
  {"exercises_completed", "trainer_notes", "session_rating", "duration_minutes"}

\* completionData: its text and the properties it has
CompletionValues ==
  {[json |-> "{trainer_notes:n}", props |-> [trainer_notes |-> "n"]],
   [json |-> "{trainer_notes:well done,session_rating:5,duration_minutes:45,exercises_completed:[e1]}",
    props |-> [trainer_notes |-> "well done", session_rating |-> "5",
               duration_minutes |-> "45", exercises_completed |-> "[e1]"]]}

\* completionData as the JSON object stored in completion_data
AsJson(data) == data.json

\* the update of completeTrainingSession: status, completion_data and the
\* properties completionData has (an undefined property is not sent)
CompleteUpdate(data) ==
  Spread([status |-> "completed", completion_data |-> AsJson(data)],
         [k \in DOMAIN data.props \cap CompletedColumns |-> data.props[k]])

\* completeTrainingSession(sessionId, completionData), up to the await of
\* the update
CmtsCall(p, id, data) ==
  /\ pc[p] = "idle"
  /\ Send(p, "cmts_update",
          [fn |-> "completeTrainingSession", id |-> id, completionData |-> data],
          "training_sessions", "update")

\* completeTrainingSession(sessionId, null): reading a property of
\* completionData throws before the request is built, the catch block
\* returns false
CmtsCallNull(p, id) ==
  /\ pc[p] = "idle"
  /\ pc' = [pc EXCEPT ![p] = "done"]
  /\ arg' = [arg EXCEPT ![p] = [fn |-> "completeTrainingSession", id |-> id]]
  /\ result' = [result EXCEPT ![p] = "false"]
  /\ UNCHANGED <<writerFrame, requests, workout_plans, plan_sessions, training_sessions>>

\* the update answers: the row with the id, if there is one, is completed
\* and true is returned; on { error } or a throw false is returned
CmtsUpdate(p, ok) ==
  /\ pc[p] = "cmts_update"
  /\ Answer(p, "cmts_update", IF ok THEN "true" ELSE "false")
  /\ training_sessions' =
       IF ok
       THEN UpdateRow(training_sessions, arg[p].id, CompleteUpdate(arg[p].completionData))
       ELSE training_sessions
  /\ UNCHANGED <<workout_plans, plan_sessions>>

NextApi ==
  \/ \E p \in Procs, d \in PlanDataValues : CwpCall(p, d)
  \/ \E p \in Procs : CwpProfile(p)
  \/ \E p \in Procs : CwpInsertOk(p)
  \/ \E p \in Procs : CwpInsertFail(p)
  \/ \E p \in Procs : GwpCall(p)
  \/ \E p \in Procs : GwpProfile(p)
  \/ \E p \in Procs : GwpQueryOk(p)
  \/ \E p \in Procs : GwpQueryFail(p)
  \/ \E p \in Procs, a \in SessionArgs : GttsCall(p, a)
  \/ \E p \in Procs, plan \in SavedPlans : SwpCall(p, plan)
  \/ \E p \in Procs : SwpInsert(p, TRUE)
  \/ \E p \in Procs : SwpInsert(p, FALSE)
  \/ \E p \in Procs, m \in UpdateModules, id \in WriterPlanIds, u \in PlanUpdates :
       UwpCall(p, m, id, u)
  \/ \E p \in Procs : UwpUpdate(p, TRUE)
  \/ \E p \in Procs : UwpUpdate(p, FALSE)
  \/ \E p \in Procs, id \in WriterPlanIds : DeleteByIdCall(p, id)
  \/ \E p \in Procs : DeleteById(p, TRUE)
  \/ \E p \in Procs : DeleteById(p, FALSE)
  \/ \E p \in Procs, b \in SessionBatches : CpsCall(p, b)
  \/ \E p \in Procs : CpsInsertOk(p)
  \/ \E p \in Procs : CpsInsertFail(p)
  \/ \E p \in Procs, b \in SessionBatches \ {<<>>} : SpsCall(p, b[1])
  \/ \E p \in Procs : SpsInsert(p, TRUE)
  \/ \E p \in Procs : SpsInsert(p, FALSE)
  \/ \E p \in Procs, id \in SessionRowIds, u \in SessionUpdates : UpsCall(p, id, u)
  \/ \E p \in Procs : UpsUpdate(p, TRUE)
  \/ \E p \in Procs : UpsUpdate(p, FALSE)
  \/ \E p \in Procs, d \in NewTrainingSessions : CtsCall(p, d)
  \/ \E p \in Procs : CtsInsert(p, "ok")
  \/ \E p \in Procs : CtsInsert(p, "nodata")
  \/ \E p \in Procs : CtsInsert(p, "error")
  \/ \E p \in Procs : CtsProfiles(p)
  \/ \E p \in Procs : CtsProfilesThrow(p)
  \/ \E p \in Procs, id \in TrainingIds, c \in OptionalCompletion : UtsCall(p, id, c)
  \/ \E p \in Procs : UtsUpdate(p, TRUE)
  \/ \E p \in Procs : UtsUpdate(p, FALSE)
  \/ \E p \in Procs, id \in TrainingIds, d \in CompletionValues : CmtsCall(p, id, d)
  \/ \E p \in Procs, id \in TrainingIds : CmtsCallNull(p, id)
  \/ \E p \in Procs : CmtsUpdate(p, TRUE)
  \/ \E p \in Procs : CmtsUpdate(p, FALSE)

SpecApi == InitApi /\ [][NextApi]_vars

----------------------------------------------------------------------------
(* initializeDefaultTemplates of the templates module.  pc of a caller:     *)
(* "idt_count" (awaiting the count), "idt_profile" (awaiting the admin      *)
(* profile), "idt_exercises" (awaiting the insert of the exercises),        *)
(* "idt_template" (awaiting the insert of template arg.i),                  *)
(* "idt_texercises" (awaiting the insert of its template_exercises).        *)
(* arg holds the call's locals: fn (the function the caller called), i (the *)
(* position in defaultTemplates), exBase (where the inserted exercises      *)
(* start, which stands for exercisesMap), tid (insertedTemplate.id).        *)

\* defaultExercisesData: the names, in order
DefaultExerciseNames ==
  <<"Push-ups", "Squats", "Bench Press", "Deadlift", "Pull-ups", "Plank",
    "Lunges", "Burpees">>

TemplateConfig(name, exerciseNames) == [name |-> name, exercises_config |-> exerciseNames]

\* defaultTemplates: name and the exercise names of exercises_config, in order
AllDefaultTemplates ==
  <<TemplateConfig("Upper Body Strength", <<"Bench Press", "Pull-ups">>),
    TemplateConfig("Lower Body Power", <<"Squats", "Deadlift">>),
    TemplateConfig("HIIT Cardio Blast", <<"Burpees", "Plank">>),
    TemplateConfig("Full Body Functional", <<"Push-ups", "Squats", "Pull-ups">>)>>

\* for (const templateConfig of defaultTemplates): every one of them
DefaultTemplates == AllDefaultTemplates

ExerciseRow(id, name) == [id |-> id, name |-> name]

TemplateRow(id, name, clientId) == [id |-> id, name |-> name, client_id |-> clientId]

TemplateExerciseRow(templateId, exerciseId, orderIndex) ==
  [template_id |-> templateId, exercise_id |-> exerciseId, order_index |-> orderIndex]

\* the column client_id of a template inserted without one
NoClient == "null"

\* the id workout_templates gives a new row: the next value of the table's
\* id sequence (template_ids is the last id given), never an id given
\* before, whether or not its row is still stored
NewTemplateId == template_ids + 1

\* the ids exercises gives its rows: the position of the row
ExerciseBatch(base) ==
  [k \in 1..Len(DefaultExerciseNames) |-> ExerciseRow(base + k, DefaultExerciseNames[k])]

\* exercisesMap.get(name) for the batch inserted at base
ExerciseIdOf(base, name) ==
  base + (CHOOSE k \in 1..Len(DefaultExerciseNames) : DefaultExerciseNames[k] = name)

\* templateExercisesToInsert: exercises_config.map((exConfig, index) => ...)
TemplateExercisesToInsert(config, tid, base) ==
  [k \in 1..Len(config.exercises_config) |->
     TemplateExerciseRow(tid, ExerciseIdOf(base, config.exercises_config[k]), k - 1)]

InitTpl ==
  /\ tz = UTCZone
  /\ pc = [p \in Callers |-> "idle"]
  /\ arg = [p \in Callers |-> NoPlan]
  /\ sessions = [p \in Callers |-> <<>>]
  /\ result = [p \in Callers |-> "none"]
  /\ inserts = <<>>
  /\ plan_sessions = <<>>
  /\ hist = <<>>
  /\ workout_plans = StoredPlans
  /\ profile = Profile("U3", "client")
  /\ deletes = <<>>
  /\ requests = <<>>
  /\ training_sessions = {}
  /\ workout_templates = <<>>
  /\ template_ids = 0
  /\ template_exercises = <<>>
  /\ exercises = <<>>

\* what no action of the template functions changes
tplFrame == <<tz, sessions, inserts, plan_sessions, hist, workout_plans, profile,
              deletes, training_sessions>>

Locals(fn, clientId, i, exBase, tid) ==
  [fn |-> fn, clientId |-> clientId, i |-> i, exBase |-> exBase, tid |-> tid]

\* initializeDefaultTemplates(), up to the await of the count
IdtCall(p) ==
  /\ pc[p] = "idle"
  /\ pc' = [pc EXCEPT ![p] = "idt_count"]
  /\ arg' = [arg EXCEPT ![p] = Locals("initializeDefaultTemplates", NoClient, 0, 0, 0)]
  /\ UNCHANGED <<tplFrame, requests, result, templateTables>>

\* where a caller goes when initializeDefaultTemplates returns: back into
\* getWorkoutTemplatesForClient, which fetches again, or to the end
AfterInit(p) ==
  IF arg[p].fn = "getWorkoutTemplatesForClient" THEN "gfc_refetch" ELSE "done"

\* if (count && count > 0): templates exist, initialization is skipped
SkipInit(count) == count > 0

\* the count arrives: with an error, or with templates already there, the
\* function returns; otherwise the admin profile is fetched
IdtCount(p, ok) ==
  /\ pc[p] = "idt_count"
  /\ IF ok /\ ~SkipInit(Len(workout_templates))
     THEN /\ pc' = [pc EXCEPT ![p] = "idt_profile"]
     ELSE /\ pc' = [pc EXCEPT ![p] = AfterInit(p)]
  /\ UNCHANGED <<tplFrame, requests, arg, result, templateTables>>

\* the select of the admin profile answers.  With a profile, or with none
\* (createdBy then falls back to 'system'), the default exercises are sent;
\* when the awaited select rejects, the catch block ends the function
IdtProfile(p, answered) ==
  /\ pc[p] = "idt_profile"
  /\ pc' = [pc EXCEPT ![p] = IF answered THEN "idt_exercises" ELSE AfterInit(p)]
  /\ UNCHANGED <<tplFrame, requests, arg, result, templateTables>>

\* the next step of the loop over defaultTemplates from position i
LoopFrom(p, i) == IF i <= Len(DefaultTemplates) THEN "idt_template" ELSE AfterInit(p)

\* the insert of the exercises answers: with an error the function returns;
\* otherwise the rows are stored and the loop starts
IdtExercises(p, ok) ==
  /\ pc[p] = "idt_exercises"
  /\ IF ok
     THEN /\ exercises' = exercises \o ExerciseBatch(Len(exercises))
          /\ arg' = [arg EXCEPT ![p].exBase = Len(exercises), ![p].i = 1]
          /\ pc' = [pc EXCEPT ![p] = LoopFrom(p, 1)]
     ELSE /\ exercises' = exercises
          /\ arg' = arg
          /\ pc' = [pc EXCEPT ![p] = AfterInit(p)]
  /\ UNCHANGED <<tplFrame, requests, result, workout_templates, template_exercises, template_ids>>

\* An awaited insert of the loop ends stored ("ok"), answered { error }
\* ("error"), or rejected, the await throwing ("throw").
\* The insert of template i ends.  "ok": the row is stored and its
\* exercises are sent; "error": `continue`, the loop goes on with the next
\* template; "throw": the catch block ends the function, the templates
\* after i are never sent
IdtTemplate(p, outcome) ==
  /\ pc[p] = "idt_template"
  /\ IF outcome = "ok"
     THEN /\ workout_templates' =
               Append(workout_templates,
                      TemplateRow(NewTemplateId, DefaultTemplates[arg[p].i].name, NoClient))
          /\ template_ids' = NewTemplateId
          /\ arg' = [arg EXCEPT ![p].tid = NewTemplateId]
          /\ pc' = [pc EXCEPT ![p] = "idt_texercises"]
     ELSE IF outcome = "error"
     THEN /\ UNCHANGED <<workout_templates, template_ids>>
          /\ arg' = [arg EXCEPT ![p].i = arg[p].i + 1]
          /\ pc' = [pc EXCEPT ![p] = LoopFrom(p, arg[p].i + 1)]
     ELSE /\ UNCHANGED <<workout_templates, template_ids>>
          /\ arg' = arg
          /\ pc' = [pc EXCEPT ![p] = AfterInit(p)]
  /\ UNCHANGED <<tplFrame, requests, result, template_exercises, exercises>>

\* the insert of the template's exercises ends.  "ok" (stored) and "error"
\* (logged only): the loop goes on to the next template; "throw": the catch
\* block ends the function
IdtTemplateExercises(p, outcome) ==
  /\ pc[p] = "idt_texercises"
  /\ template_exercises' =
       IF outcome = "ok"
       THEN template_exercises \o
              TemplateExercisesToInsert(DefaultTemplates[arg[p].i], arg[p].tid, arg[p].exBase)
       ELSE template_exercises
  /\ IF outcome = "throw"
     THEN /\ arg' = arg
          /\ pc' = [pc EXCEPT ![p] = AfterInit(p)]
     ELSE /\ arg' = [arg EXCEPT ![p].i = arg[p].i + 1]
          /\ pc' = [pc EXCEPT ![p] = LoopFrom(p, arg[p].i + 1)]
  /\ UNCHANGED <<tplFrame, requests, result, workout_templates, exercises, template_ids>>

\* two callers, each calling initializeDefaultTemplates once, one after the
\* other or at once
NextTpl ==
  \/ \E p \in Callers : IdtCall(p)
  \/ \E p \in Callers : IdtCount(p, TRUE)
  \/ \E p \in Callers : IdtCount(p, FALSE)
  \/ \E p \in Callers : IdtProfile(p, TRUE)
  \/ \E p \in Callers : IdtProfile(p, FALSE)
  \/ \E p \in Callers : IdtExercises(p, TRUE)
  \/ \E p \in Callers : IdtExercises(p, FALSE)
  \/ \E p \in Callers : IdtTemplate(p, "ok")
  \/ \E p \in Callers : IdtTemplate(p, "error")
  \/ \E p \in Callers : IdtTemplate(p, "throw")
  \/ \E p \in Callers : IdtTemplateExercises(p, "ok")
  \/ \E p \in Callers : IdtTemplateExercises(p, "error")
  \/ \E p \in Callers : IdtTemplateExercises(p, "throw")

SpecTpl == InitTpl /\ [][NextTpl]_vars

----------------------------------------------------------------------------
(* The template readers: getWorkoutTemplates, getWorkoutTemplate and
   getWorkoutTemplatesForClient (specification SpecRead) *)

\* the screen template-details/[id]: it loads its template with its own
\* loadTemplate and can then delete it
Screens == {2}

\* the clients whose templates are asked for
ReadClients == {"U3", "U4"}

\* the name of a template that has a client_id
ClientTemplateName == "Client Routine"

\* the template names in the order .order('name', { ascending: true }) puts them
NamesAscending ==
  <<"Client Routine", "Full Body Functional", "HIIT Cardio Blast",
    "Lower Body Power", "Upper Body Strength">>

NameRank(name) == CHOOSE k \in DOMAIN NamesAscending : NamesAscending[k] = name

\* exercise:exercise_id(*): the row of exercises the id refers to
ExerciseById(id) == exercises[id]

\* one element of the embedded list as the select names its columns:
\* order_index and exercise (sets_config and notes are carried along unread)
JoinedExercise(te) == [order_index |-> te.order_index, exercise |-> ExerciseById(te.exercise_id)]

\* exercises:template_exercises(...): the rows of template_exercises of the
\* template, in the order the table holds them
EmbeddedExercises(tid) ==
  LET rows == SelectSeq(template_exercises, LAMBDA te : te.template_id = tid)
  IN  [i \in DOMAIN rows |-> JoinedExercise(rows[i])]

\* one row of the select: the columns of the template and the embedded list
SelectedTemplate(row) == Spread(row, [exercises |-> EmbeddedExercises(row.id)])

\* .order('name', { ascending: true })
OrderByName(rows) == SortSeq(rows, LAMBDA a, b : NameRank(a.name) < NameRank(b.name))

\* .sort((a, b) => a.order_index - b.order_index)
SortByOrderIndex(s) == SortSeq(s, LAMBDA a, b : a.order_index < b.order_index)

\* the element of the TemplateExercise shape built from te of the template
MappedExercise(template, te) ==
  [id          |-> te.exercise.id,
   template_id |-> template.id,
   exercise_id |-> te.exercise.id,
   exercise    |-> te.exercise,
   order_index |-> te.order_index]

\* faulty variant of MapTemplate: the row is returned as the select gave it
MapTemplateAlt(template) == template

\* { ...template, exercises: template.exercises.map(...).sort(...) }
MapTemplate(template) ==
  Spread(template,
         [exercises |->
            SortByOrderIndex([i \in DOMAIN template.exercises |->
                                MappedExercise(template, template.exercises[i])])])

\* data.map((template) => ...): every template of the answer, mapped
MapTemplates(data) == [i \in DOMAIN data |-> MapTemplate(data[i])]

\* the answer of a select on the rows: each row with its embedded list
SelectTemplates(rows) == [i \in DOMAIN rows |-> SelectedTemplate(rows[i])]

\* .eq('client_id', clientId): the templates of the client
ClientTemplates(clientId) ==
  SelectTemplates(SelectSeq(workout_templates, LAMBDA row : row.client_id = clientId))

Store(templates, templateExercises, exerciseRows) ==
  [workout_templates |-> templates, template_exercises |-> templateExercises,
   exercises |-> exerciseRows]

\* the tables as a reader may find them: empty; the default exercises alone
\* (every insert of a default template failed); the first default template
\* installed; and that with a template of client U3 beside it
ReadStores ==
  LET first == <<TemplateRow(1, DefaultTemplates[1].name, NoClient)>>
      firstExercises == TemplateExercisesToInsert(DefaultTemplates[1], 1, 0)
  IN  { Store(<<>>, <<>>, <<>>),
        Store(<<>>, <<>>, ExerciseBatch(0)),
        Store(first, firstExercises, ExerciseBatch(0)),
        Store(Append(first, TemplateRow(2, ClientTemplateName, "U3")),
              firstExercises \o
                TemplateExercisesToInsert(
                  TemplateConfig(ClientTemplateName, <<"Push-ups", "Squats">>), 2, 0),
              ExerciseBatch(0)) }

InitRead ==
  /\ tz = UTCZone
  /\ pc = [p \in Procs \cup Screens |-> "idle"]
  /\ arg = [p \in Procs \cup Screens |-> NoPlan]
  /\ sessions = [p \in Procs \cup Screens |-> <<>>]
  /\ result = [p \in Procs \cup Screens |-> <<>>]
  /\ inserts = <<>>
  /\ plan_sessions = <<>>
  /\ hist = <<>>
  /\ workout_plans = StoredPlans
  /\ profile = Profile("U3", "client")
  /\ deletes = <<>>
  /\ requests = <<>>
  /\ training_sessions = {}
  /\ \E st \in ReadStores :
       /\ workout_templates = st.workout_templates
       /\ template_ids = Len(st.workout_templates)
       /\ template_exercises = st.template_exercises
       /\ exercises = st.exercises

\* getWorkoutTemplates(), up to the await of the select
GwtCall(p) ==
  /\ pc[p] = "idle"
  /\ pc' = [pc EXCEPT ![p] = "gwt_query"]
  /\ arg' = [arg EXCEPT ![p] = [fn |-> "getWorkoutTemplates"]]
  /\ UNCHANGED <<tplFrame, requests, result, templateTables>>

\* the select answers: [] on an error, otherwise every template, mapped
GwtQuery(p, ok) ==
  /\ pc[p] = "gwt_query"
  /\ result' = [result EXCEPT ![p] =
       IF ok
       THEN MapTemplates(OrderByName(SelectTemplates(workout_templates)))
       ELSE <<>>]
  /\ pc' = [pc EXCEPT ![p] = "done"]
  /\ UNCHANGED <<tplFrame, requests, arg, templateTables>>

\* the ids getWorkoutTemplate is asked for
TemplateIds == 1..3

\* getWorkoutTemplate(templateId), up to the await of the select
GtCall(p, templateId) ==
  /\ pc[p] = "idle"
  /\ pc' = [pc EXCEPT ![p] = "gt_query"]
  /\ arg' = [arg EXCEPT ![p] = [fn |-> "getWorkoutTemplate", templateId |-> templateId]]
  /\ UNCHANGED <<tplFrame, requests, result, templateTables>>

\* .eq('id', templateId).maybeSingle(): the row, or no data (with an error,
\* or when no row has the id); no data gives null, a row is returned mapped
GtQuery(p, ok) ==
  /\ pc[p] = "gt_query"
  /\ LET data == SelectSeq(workout_templates, LAMBDA row : row.id = arg[p].templateId)
     IN  result' = [result EXCEPT ![p] =
           IF ok /\ data # <<>>
           THEN Returned(MapTemplate(SelectedTemplate(data[1])))
           ELSE Null]
  /\ pc' = [pc EXCEPT ![p] = "done"]
  /\ UNCHANGED <<tplFrame, requests, arg, templateTables>>

\* getWorkoutTemplatesForClient(clientId), up to the await of the first select
GfcCall(p, clientId) ==
  /\ pc[p] = "idle"
  /\ pc' = [pc EXCEPT ![p] = "gfc_first"]
  /\ arg' = [arg EXCEPT ![p] =
       Locals("getWorkoutTemplatesForClient", clientId, 0, 0, 0)]
  /\ UNCHANGED <<tplFrame, requests, result, templateTables>>

\* the first select answers: [] on an error; the client's templates mapped
\* when there are any; otherwise initializeDefaultTemplates is called
GfcFirst(p, ok) ==
  /\ pc[p] = "gfc_first"
  /\ LET clientTemplates == OrderByName(ClientTemplates(arg[p].clientId))
     IN  IF ~ok
         THEN /\ result' = [result EXCEPT ![p] = <<>>]
              /\ pc' = [pc EXCEPT ![p] = "done"]
         ELSE IF clientTemplates = <<>>
         THEN /\ result' = result
              /\ pc' = [pc EXCEPT ![p] = "idt_count"]
         ELSE /\ result' = [result EXCEPT ![p] = MapTemplates(clientTemplates)]
              /\ pc' = [pc EXCEPT ![p] = "done"]
  /\ UNCHANGED <<tplFrame, requests, arg, templateTables>>

\* the select after the initialization answers: [] on an error, otherwise
\* newTemplates || [], the rows as they arrive
GfcRefetch(p, ok) ==
  /\ pc[p] = "gfc_refetch"
  /\ result' = [result EXCEPT ![p] =
       IF ok THEN ClientTemplates(arg[p].clientId) ELSE <<>>]
  /\ pc' = [pc EXCEPT ![p] = "done"]
  /\ UNCHANGED <<tplFrame, requests, arg, templateTables>>

\* one element of template_exercises (*, exercise:exercises (*)) as
\* loadTemplate transforms it, no sort: the properties made of the columns
\* the tables hold here (id, sets and notes come from columns they do not)
LoadedExercise(te) ==
  [exerciseId |-> te.exercise_id,
   exercise   |-> [id |-> ExerciseById(te.exercise_id).id,
                   name |-> ExerciseById(te.exercise_id).name],
   order      |-> te.order_index]

\* transformedTemplate of loadTemplate
TransformedTemplate(row) ==
  LET rows == SelectSeq(template_exercises, LAMBDA te : te.template_id = row.id)
  IN  [id |-> row.id, name |-> row.name,
       exercises |-> [i \in DOMAIN rows |-> LoadedExercise(rows[i])]]

\* the state of the screen: the route's id and useState's template; how
\* often the delete button was pressed; the confirmations (Alert.alert) that
\* are open; the onPress handlers awaiting their delete on template_exercises
\* (deleting) and on workout_templates (removing); the calls of router.back()
ScreenState(id, template) ==
  [fn |-> "TemplateDetailsScreen", id |-> id, template |-> template,
   pressed |-> 0, alerts |-> 0, deleting |-> 0, removing |-> 0, backs |-> 0]

\* useEffect: loadTemplate() with a string id, up to the await of the select
LtCall(p, id) ==
  /\ pc[p] = "idle"
  /\ pc' = [pc EXCEPT ![p] = "lt_query"]
  /\ arg' = [arg EXCEPT ![p] = ScreenState(id, Null)]
  /\ UNCHANGED <<tplFrame, requests, result, templateTables>>

\* loadTemplate() when the route's id is not a string: no request is sent,
\* the template stays null
LtSkip(p) ==
  /\ pc[p] = "idle"
  /\ pc' = [pc EXCEPT ![p] = "screen"]
  /\ arg' = [arg EXCEPT ![p] = ScreenState(0, Null)]
  /\ UNCHANGED <<tplFrame, requests, result, templateTables>>

\* .eq('id', id).single() ends.  "ok" with a row of the id: setTemplate of
\* the transformed row; "ok" with no such row (for .single() an error) and
\* "error": setTemplate(null); "throw" (the awaited select rejects, or
\* JSON.parse of a sets_config throws): the catch block shows 'Failed to
\* load template', the template stays null
LtQuery(p, outcome) ==
  /\ pc[p] = "lt_query"
  /\ LET data == SelectSeq(workout_templates, LAMBDA row : row.id = arg[p].id)
     IN  arg' = [arg EXCEPT ![p].template =
           IF outcome = "ok" /\ data # <<>>
           THEN Returned(TransformedTemplate(data[1]))
           ELSE Null]
  /\ result' = [result EXCEPT ![p] =
       IF outcome = "throw" THEN "Failed to load template" ELSE result[p]]
  /\ pc' = [pc EXCEPT ![p] = "screen"]
  /\ UNCHANGED <<tplFrame, requests, templateTables>>

\* template.id of the screen's template
LoadedId(p) == (CHOOSE t \in arg[p].template : TRUE).id

\* the screen was shown: mounted, or left with router.back() while
\* confirmations are open or handlers await their answers
Shown(p) == pc[p] \in {"screen", "left"}

\* handleDelete(): the button is pressed on the mounted screen with a
\* template loaded; Alert.alert shows the confirmation and the function
\* returns.  No flag keeps the button from being pressed again while a
\* confirmation is open or a delete is awaited
HdPress(p) ==
  /\ pc[p] = "screen"
  /\ arg[p].template # Null
  /\ arg[p].pressed < MaxPresses
  /\ arg' = [arg EXCEPT ![p].pressed = @ + 1, ![p].alerts = @ + 1]
  /\ UNCHANGED <<tplFrame, requests, pc, result, templateTables>>

\* 'Cancel' of a confirmation: nothing is sent
HdCancel(p) ==
  /\ Shown(p)
  /\ arg[p].alerts > 0
  /\ arg' = [arg EXCEPT ![p].alerts = @ - 1]
  /\ UNCHANGED <<tplFrame, requests, pc, result, templateTables>>

\* 'Delete' of a confirmation: onPress runs up to the await of the delete
\* on template_exercises, whatever other handler is awaiting and also after
\* router.back()
HdConfirm(p) ==
  /\ Shown(p)
  /\ arg[p].alerts > 0
  /\ arg' = [arg EXCEPT ![p].alerts = @ - 1, ![p].deleting = @ + 1]
  /\ UNCHANGED <<tplFrame, requests, pc, result, templateTables>>

\* .from('template_exercises').delete().eq('template_id', template.id) of
\* one handler answers: without an error the rows of the template are gone
\* and the delete of the template is sent; with { error } (thrown on) or a
\* rejected await the catch block shows 'Failed to delete template'
HdTemplateExercises(p, ok) ==
  /\ Shown(p)
  /\ arg[p].deleting > 0
  /\ IF ok
     THEN /\ template_exercises' =
               SelectSeq(template_exercises, LAMBDA te : te.template_id # LoadedId(p))
          /\ arg' = [arg EXCEPT ![p].deleting = @ - 1, ![p].removing = @ + 1]
          /\ result' = result
     ELSE /\ template_exercises' = template_exercises
          /\ arg' = [arg EXCEPT ![p].deleting = @ - 1]
          /\ result' = [result EXCEPT ![p] = "Failed to delete template"]
  /\ UNCHANGED <<tplFrame, requests, pc, workout_templates, exercises, template_ids>>

\* .from('workout_templates').delete().eq('id', template.id) of one handler
\* answers: without an error the row, if still stored, is gone and
\* router.back() is called; otherwise the catch block shows the alert and
\* the template stays, without its exercises
HdTemplate(p, ok) ==
  /\ Shown(p)
  /\ arg[p].removing > 0
  /\ workout_templates' =
       IF ok
       THEN SelectSeq(workout_templates, LAMBDA row : row.id # LoadedId(p))
       ELSE workout_templates
  /\ arg' = [arg EXCEPT ![p].removing = @ - 1,
                        ![p].backs = IF ok THEN @ + 1 ELSE @]
  /\ pc' = [pc EXCEPT ![p] = IF ok THEN "left" ELSE pc[p]]
  /\ result' = [result EXCEPT ![p] =
       IF ok THEN result[p] ELSE "Failed to delete template"]
  /\ UNCHANGED <<tplFrame, requests, template_exercises, exercises, template_ids>>

NextRead ==
  \/ \E p \in Procs : GwtCall(p)
  \/ \E p \in Procs : GwtQuery(p, TRUE)
  \/ \E p \in Procs : GwtQuery(p, FALSE)
  \/ \E p \in Procs, id \in TemplateIds : GtCall(p, id)
  \/ \E p \in Procs : GtQuery(p, TRUE)
  \/ \E p \in Procs : GtQuery(p, FALSE)
  \/ \E p \in Procs, c \in ReadClients : GfcCall(p, c)
  \/ \E p \in Procs : GfcFirst(p, TRUE)
  \/ \E p \in Procs : GfcFirst(p, FALSE)
  \/ \E p \in Procs : IdtCount(p, TRUE)
  \/ \E p \in Procs : IdtCount(p, FALSE)
  \/ \E p \in Procs : IdtProfile(p, TRUE)
  \/ \E p \in Procs : IdtProfile(p, FALSE)
  \/ \E p \in Procs : IdtExercises(p, TRUE)
  \/ \E p \in Procs : IdtExercises(p, FALSE)
  \/ \E p \in Procs : IdtTemplate(p, "ok")
  \/ \E p \in Procs : IdtTemplate(p, "error")
  \/ \E p \in Procs : IdtTemplate(p, "throw")
  \/ \E p \in Procs : IdtTemplateExercises(p, "ok")
  \/ \E p \in Procs : IdtTemplateExercises(p, "error")
  \/ \E p \in Procs : IdtTemplateExercises(p, "throw")
  \/ \E p \in Procs : GfcRefetch(p, TRUE)
  \/ \E p \in Procs : GfcRefetch(p, FALSE)
  \/ \E p \in Screens, id \in TemplateIds : LtCall(p, id)
  \/ \E p \in Screens : LtSkip(p)
  \/ \E p \in Screens : LtQuery(p, "ok")
  \/ \E p \in Screens : LtQuery(p, "error")
  \/ \E p \in Screens : LtQuery(p, "throw")
  \/ \E p \in Screens : HdPress(p)
  \/ \E p \in Screens : HdCancel(p)
  \/ \E p \in Screens : HdConfirm(p)
  \/ \E p \in Screens : HdTemplateExercises(p, TRUE)
  \/ \E p \in Screens : HdTemplateExercises(p, FALSE)
  \/ \E p \in Screens : HdTemplate(p, TRUE)
  \/ \E p \in Screens : HdTemplate(p, FALSE)

SpecRead == InitRead /\ [][NextRead]_vars

----------------------------------------------------------------------------
(* Properties of one invocation (specification Spec) *)

\* C1: weekly expansion is exact: for a weekly plan whose schedule_data is an
\* object, the sessions built are exactly one per calendar day d of
\* [start_date, end_date] whose weekday name has a non-empty value, with that
\* value as template_id, scheduled_date = d and day_of_week = the weekday of d,
\* and none for any other day.
C1_WeeklyExact ==
  \A p \in Procs :
    (Past(p) /\ arg[p].schedule_type = "weekly" /\ arg[p].schedule_data.shape = "weekly") =>
      LET pl == arg[p]
          ss == sessions[p]
          m  == pl.schedule_data.weekly
      IN  /\ \A d \in RangeDays(pl) :
                CountOn(ss, CivilFromDays(d)) = IF Truthy(m[WeekdayOfDay(d)]) THEN 1 ELSE 0
          /\ \A i \in DOMAIN ss :
                LET d == DayNo(ss[i].scheduled_date)
                IN  /\ d \in RangeDays(pl)
                    /\ ss[i].template_id = m[WeekdayOfDay(d)]
                    /\ ss[i].day_of_week = WeekdayOfDay(d)

\* C2: monthly expansion is exact: for a monthly plan whose schedule_data is a
\* week-keyed object, a session is built for day d of [start_date, end_date]
\* if and only if schedule_data[ceil(dayOfMonth(d)/7)][weekday(d)] exists, with
\* that value as template_id.
C2_MonthlyExact ==
  \A p \in Procs :
    (Past(p) /\ arg[p].schedule_type = "monthly" /\ arg[p].schedule_data.shape = "monthly") =>
      LET pl == arg[p]
          ss == sessions[p]
          m  == pl.schedule_data.monthly
          Wk(d) == (CivilFromDays(d)[3] + 6) \div 7
          Val(d) == IF m[Wk(d)].defined THEN m[Wk(d)].days[WeekdayOfDay(d)] ELSE Undefined
      IN  /\ \A d \in RangeDays(pl) :
                CountOn(ss, CivilFromDays(d)) = IF Truthy(Val(d)) THEN 1 ELSE 0
          /\ \A i \in DOMAIN ss :
                LET d == DayNo(ss[i].scheduled_date)
                IN  d \in RangeDays(pl) /\ ss[i].template_id = Val(d)

\* C3: for weekly and monthly plans no two sessions built by one invocation
\* have the same scheduled_date, and every scheduled_date lies in
\* [start_date, end_date].
C3_DistinctInRange ==
  \A p \in Procs :
    (Past(p) /\ arg[p].schedule_type \in {"weekly", "monthly"}) =>
      LET pl == arg[p]
          ss == sessions[p]
      IN  /\ \A i, j \in DOMAIN ss : i # j => ss[i].scheduled_date # ss[j].scheduled_date
          /\ \A i \in DOMAIN ss :
                /\ DateLE(pl.start_date, ss[i].scheduled_date)
                /\ DateLE(ss[i].scheduled_date, pl.end_date)

\* an invocation whose range is empty built nothing, issued no insert and
\* returned true
EmptyOutcome(p) ==
  /\ sessions[p] = <<>>
  /\ InsertsBy(p) = <<>>
  /\ pc[p] = "done"
  /\ result[p] = "true"

\* C4 as stated: whenever end_date < start_date the session sequence is empty,
\* for every schedule_type and every payload; no insert, no error.
C4_EmptyRangeAnyType ==
  \A p \in Procs :
    (Past(p) /\ DateLT(arg[p].end_date, arg[p].start_date)) => EmptyOutcome(p)

\* C4 amended: whenever end_date < start_date and the schedule_type is not
\* 'custom', the session sequence is empty whatever schedule_data is (null
\* included): no insert is issued and the call returns true.
C4_EmptyRangeWalked ==
  \A p \in Procs :
    (Past(p) /\ DateLT(arg[p].end_date, arg[p].start_date)
       /\ arg[p].schedule_type # "custom") => EmptyOutcome(p)

C4_Witness ==
  \E p \in Procs :
    /\ pc[p] = "done"
    /\ arg[p].schedule_type = "weekly"
    /\ arg[p].schedule_data.shape = "null"
    /\ DateLT(arg[p].end_date, arg[p].start_date)
    /\ result[p] = "true"

Ascending(ss) ==
  \A i, j \in DOMAIN ss : i < j => DateLE(ss[i].scheduled_date, ss[j].scheduled_date)

\* C5 as stated: the sessions built are in ascending order of scheduled_date
\* for every schedule_type, custom included.
C5_AscendingAnyType == \A p \in Procs : Past(p) => Ascending(sessions[p])

\* C5 amended: for weekly and monthly plans the sessions built are in
\* ascending (never descending) order of scheduled_date; custom sessions are
\* in the order of the entries.
C5_AscendingWalked ==
  \A p \in Procs :
    (Past(p) /\ arg[p].schedule_type \in {"weekly", "monthly"}) => Ascending(sessions[p])

C5_Witness ==
  \E p \in Procs :
    /\ Past(p)
    /\ arg[p].schedule_type = "monthly"
    /\ Len(sessions[p]) >= 2
    /\ DateLT(sessions[p][1].scheduled_date, sessions[p][2].scheduled_date)

\* the session the claim expects of a custom entry
VerbatimSession(pl, e) ==
  [plan_id |-> pl.id, template_id |-> e.templateId, scheduled_date |-> e.date,
   day_of_week |-> Undefined, week_number |-> <<>>, status |-> "scheduled",
   notes |-> e.label]

\* C6: custom entries are verbatim: for a custom plan with an array
\* schedule_data the sessions built are, in entry order, one per entry that
\* has both date and templateId set (scheduled_date, template_id and notes
\* copied from date, templateId and label); an entry lacking either builds
\* nothing; start_date and end_date play no part.
C6_CustomVerbatim ==
  \A p \in Procs :
    (Past(p) /\ arg[p].schedule_type = "custom" /\ arg[p].schedule_data.shape = "array") =>
      LET pl   == arg[p]
          kept == SelectSeq(pl.schedule_data.entries,
                            LAMBDA e : e.date # <<>> /\ e.templateId \notin {Undefined, ""})
      IN  sessions[p] = [i \in 1..Len(kept) |-> VerbatimSession(pl, kept[i])]

\* C7: the call returns false only when the insert was issued and failed.
C7_FalseOnlyOnFailedInsert ==
  \A p \in Procs :
    result[p] = "false" =>
      \E i \in DOMAIN inserts : inserts[i].by = p /\ inserts[i].answer \in {"error", "threw"}

\* C8: insert discipline: one invocation issues the plan_sessions insert
\* exactly once, carrying the whole generated sequence, when the sequence is
\* non-empty, and zero times when it is empty; the insert is never split and
\* never issued again after it failed.
C8_InsertOnceWhole ==
  \A p \in Procs :
    /\ Len(InsertsBy(p)) <= 1
    /\ Past(p) =>
         [i \in DOMAIN InsertsBy(p) |-> InsertsBy(p)[i].batch] =
           IF sessions[p] # <<>> THEN <<sessions[p]>> ELSE <<>>

\* the insert of invocation p that was answered { error }
ErrorInsertOf(p) == SelectSeq(InsertsBy(p), LAMBDA r : r.answer = "error")

\* C11: when the insert answers with an error, the batch rejected in whole or
\* in part, the call returns false and nothing else: the invocation is over,
\* its answer is the bare false whatever number of rows the table kept, it
\* issued that one insert only, and the rows the table kept are still there
\* (no compensating delete).
C11_ErrorIsBareFalse ==
  \A p \in Procs :
    ErrorInsertOf(p) # <<>> =>
      /\ pc[p] = "done"
      /\ result[p] = "false"
      /\ Len(InsertsBy(p)) = 1
      /\ plan_sessions = ErrorInsertOf(p)[1].kept

C11_Witness ==
  \E p \in Procs :
    /\ ErrorInsertOf(p) # <<>>
    /\ result[p] = "false"
    /\ ErrorInsertOf(p)[1].kept # <<>>
    /\ Len(ErrorInsertOf(p)[1].kept) < Len(ErrorInsertOf(p)[1].batch)
    /\ plan_sessions = ErrorInsertOf(p)[1].kept

\* C12: no exception escapes: an invocation that is over has answered true or
\* false, whatever the plan and whatever the insert did (answered, answered
\* with an error, or threw); before that it has answered nothing.
C12_AlwaysBoolean ==
  \A p \in Procs :
    /\ pc[p] \in {"idle", "insert", "done"}
    /\ pc[p] = "done" => result[p] \in {"true", "false"}
    /\ pc[p] # "done" => result[p] = "none"

\* the awaited insert threw and the catch block answered false
C12_Witness ==
  \E p \in Procs :
    /\ pc[p] = "done"
    /\ result[p] = "false"
    /\ InsertsBy(p) # <<>>
    /\ InsertsBy(p)[1].answer = "threw"
    /\ plan_sessions = <<>>

KnownTypes == {"weekly", "monthly", "custom"}

\* C13: a plan whose schedule_type is none of weekly, monthly, custom yields
\* the empty sequence, issues no insert and answers true.
C13_UnknownTypeEmpty ==
  \A p \in Procs :
    (Past(p) /\ arg[p].schedule_type \notin KnownTypes) =>
      /\ sessions[p] = <<>>
      /\ InsertsBy(p) = <<>>
      /\ pc[p] = "done"
      /\ result[p] = "true"

C13_Witness ==
  \E p \in Procs :
    /\ pc[p] = "done"
    /\ arg[p].schedule_type = "daily"
    /\ arg[p].schedule_data.shape = "weekly"
    /\ DateLT(arg[p].start_date, arg[p].end_date)
    /\ sessions[p] = <<>>
    /\ result[p] = "true"

\* C14: week_number is set on a generated session iff the plan is monthly;
\* when set it is ceil(dayOfMonth / 7) of the session's own scheduled_date
\* and lies in 1..5.
C14_WeekNumber ==
  \A p \in Procs :
    Past(p) =>
      \A i \in DOMAIN sessions[p] :
        LET s == sessions[p][i] IN
          /\ (s.week_number # <<>>) <=> (arg[p].schedule_type = "monthly")
          /\ s.week_number # <<>> =>
               /\ s.week_number[1] = Ceil7(s.scheduled_date[3])
               /\ s.week_number[1] \in 1..5

\* C15: every generated session has status 'scheduled'.
C15_StatusScheduled ==
  \A p \in Procs :
    \A i \in DOMAIN sessions[p] : sessions[p][i].status = "scheduled"

C15_Witness ==
  \E p \in Procs :
    /\ pc[p] = "done"
    /\ arg[p].schedule_type = "monthly"
    /\ Len(sessions[p]) >= 2
    /\ \A i \in DOMAIN sessions[p] : sessions[p][i].status = "scheduled"

\* C18: in every device time zone, day_of_week of a session generated for a
\* weekly or monthly plan is the weekday of the session's own scheduled_date,
\* and week_number of a monthly session is the bucket of that same date.
C18_SameCalendarDay ==
  \A p \in Procs :
    (Past(p) /\ arg[p].schedule_type \in {"weekly", "monthly"}) =>
      \A i \in DOMAIN sessions[p] :
        LET s == sessions[p][i] IN
          /\ s.day_of_week = WeekdayOfDay(DayNo(s.scheduled_date))
          /\ arg[p].schedule_type = "monthly" =>
               s.week_number = <<Ceil7(s.scheduled_date[3])>>

----------------------------------------------------------------------------
(* Properties of calls in sequence (specification SpecSeq) *)

\* two calls completed one right after the other
Consecutive(i) == i \in 1..(Len(hist) - 1)

RowsOf(table, planId) == SelectSeq(table, LAMBDA r : r.plan_id = planId)

RowsNotOf(table, planId) == SelectSeq(table, LAMBDA r : r.plan_id # planId)

\* C9: expansion is not idempotent: two successful generatePlanSessions calls
\* in a row on the same plan, no delete in between, add two full copies of
\* the plan's session sequence to plan_sessions.
C9_TwoCopies ==
  \A i \in 1..Len(hist) :
    (/\ Consecutive(i)
     /\ hist[i].op = "generate" /\ hist[i].ok
     /\ hist[i + 1].op = "generate" /\ hist[i + 1].ok
     /\ hist[i].plan = hist[i + 1].plan) =>
      LET S == BuildSessions(tz, hist[i].plan).sessions
      IN  hist[i + 1].post = hist[i].pre \o S \o S

C9_Witness ==
  \E i \in 1..Len(hist) :
    /\ Consecutive(i)
    /\ hist[i].op = "generate" /\ hist[i].ok
    /\ hist[i + 1].op = "generate" /\ hist[i + 1].ok
    /\ hist[i].plan = hist[i + 1].plan
    /\ hist[i].pre # <<>>
    /\ Len(hist[i + 1].post) >= Len(hist[i].pre) + 4
    /\ plan_sessions = hist[i + 1].post

\* C10: regeneration: a successful deletePlanSessions(plan.id) followed at
\* once by a successful generatePlanSessions(plan) leaves exactly one copy of
\* the plan's session sequence as the rows of that plan, whatever the table
\* held before, and leaves the rows of every other plan as they were.
C10_Regenerate ==
  \A i \in 1..Len(hist) :
    (/\ Consecutive(i)
     /\ hist[i].op = "delete" /\ hist[i].ok
     /\ hist[i + 1].op = "generate" /\ hist[i + 1].ok
     /\ hist[i].id = hist[i + 1].id) =>
      LET S  == BuildSessions(tz, hist[i + 1].plan).sessions
          id == hist[i].id
      IN  /\ RowsOf(hist[i + 1].post, id) = S
          /\ RowsNotOf(hist[i + 1].post, id) = RowsNotOf(hist[i].pre, id)

C10_Witness ==
  \E i \in 1..Len(hist) :
    /\ Consecutive(i)
    /\ hist[i].op = "delete" /\ hist[i].ok
    /\ hist[i + 1].op = "generate" /\ hist[i + 1].ok
    /\ hist[i].id = hist[i + 1].id
    /\ RowsOf(hist[i].pre, hist[i].id) # <<>>
    /\ RowsNotOf(hist[i].pre, hist[i].id) # <<>>
    /\ Len(RowsOf(hist[i + 1].post, hist[i].id)) >= 2
    /\ plan_sessions = hist[i + 1].post

\* a step of an invocation of generatePlanSessions (and not the call or the
\* answer of a deletePlanSessions)
GenerateStep(p) == pc'[p] # pc[p] /\ pc[p] # "delete" /\ pc'[p] # "delete"

\* rows were added at the end of table before to give after, the rows that
\* were there left as they were
AddedRows(before, after) ==
  IF Len(after) >= Len(before) /\ SubSeq(after, 1, Len(before)) = before
  THEN {after[i] : i \in (Len(before) + 1)..Len(after)}
  ELSE {[plan_id |-> "changed"]}

\* C19: frame of generatePlanSessions: a step of an invocation changes the
\* store at most by adding rows to plan_sessions, each with the plan_id of
\* the plan it was called with; the rows already stored are neither changed
\* nor removed, and workout_plans stays as it is.
C19_Frame ==
  [][\A p \in Procs :
       GenerateStep(p) =>
         /\ workout_plans' = workout_plans
         /\ \A r \in AddedRows(plan_sessions, plan_sessions') :
              r.plan_id = arg[p].id /\ pc[p] = "insert"]_vars

\* an invocation for P1 has added rows to a table that holds rows of P2
C19_Witness ==
  \E i \in 1..Len(hist) :
    /\ hist[i].op = "generate" /\ hist[i].ok /\ hist[i].id = "P1"
    /\ RowsOf(hist[i].pre, "P2") # <<>>
    /\ Len(hist[i].post) >= Len(hist[i].pre) + 2
    /\ SubSeq(hist[i].post, 1, Len(hist[i].pre)) = hist[i].pre
    /\ plan_sessions = hist[i].post
    /\ workout_plans = StoredPlans

----------------------------------------------------------------------------
(* Properties of two callers at once (specification SpecConc) *)

\* what generatePlanSessions(pl) submits when it runs alone
Alone(pl) == BuildSessions(tz, pl).sessions

\* C16: two concurrent invocations share no mutable state: under every
\* interleaving each builds and submits exactly the sequence it would when
\* run alone, and when both have answered true and no delete came in between
\* the table is what it was with the two sequences added, in the order the
\* inserts were answered.
C16_NoSharedState ==
  /\ \A p \in Callers :
       Past(p) =>
         /\ sessions[p] = Alone(arg[p])
         /\ \A i \in DOMAIN InsertsBy(p) : InsertsBy(p)[i].batch = Alone(arg[p])
         /\ \A i \in DOMAIN InsertsBy(p) :
              InsertsBy(p)[i].answer = "ok" => InsertsBy(p)[i].kept = Alone(arg[p])
  /\ (deletes = <<>> /\ \A p \in Callers : pc[p] = "done" /\ result[p] = "true") =>
       /\ Len(hist) = 2
       /\ {hist[1].plan, hist[2].plan} = {arg[p] : p \in Callers}
       /\ plan_sessions = hist[1].pre \o Alone(hist[1].plan) \o Alone(hist[2].plan)

\* both inserts were pending at once, for the same plan, and both succeeded:
\* the table holds the rows twice
C16_Witness ==
  /\ deletes = <<>>
  /\ \A p \in Callers : pc[p] = "done" /\ result[p] = "true"
  /\ arg[1] = arg[2]
  /\ Len(inserts) = 2
  /\ inserts[1].by = 2
  /\ Len(Alone(arg[1])) >= 2
  /\ Len(hist) = 2 /\ hist[1].pre # <<>>
  /\ plan_sessions = hist[1].pre \o Alone(arg[1]) \o Alone(arg[1])

\* events i .. i+3 are delete, delete, insert, insert of two regenerate
\* workflows for the plan id, all four successful
RaceAt(i, id) ==
  /\ i + 3 <= Len(hist)
  /\ \A k \in 0..3 : hist[i + k].id = id /\ hist[i + k].ok
  /\ hist[i].op = "delete" /\ hist[i + 1].op = "delete"
  /\ hist[i + 2].op = "generate" /\ hist[i + 3].op = "generate"

\* C17: regeneration is not atomic: when two regenerate workflows for the
\* same plan interleave as delete, delete, insert, insert, the table ends up
\* with two full copies of the plan's sessions, although each workflow
\* deleted before it inserted.
C17_RegenerateRace ==
  \A i \in 1..Len(hist) : \A id \in PlanIds :
    RaceAt(i, id) =>
      /\ \A p \in Callers : Len(DeletesBy(p)) = 1 /\ DeletesBy(p)[1].id = id
      /\ RowsOf(hist[i + 3].post, id) =
           Alone(hist[i + 2].plan) \o Alone(hist[i + 3].plan)

C17_Witness ==
  /\ RaceAt(1, "P1")
  /\ hist[3].plan = hist[4].plan
  /\ RowsOf(hist[1].pre, "P1") # <<>>
  /\ Len(Alone(hist[3].plan)) >= 2
  /\ plan_sessions = hist[4].post
  /\ RowsOf(plan_sessions, "P1") = Alone(hist[3].plan) \o Alone(hist[3].plan)

----------------------------------------------------------------------------
(* Properties of deleteWorkoutPlan (specification SpecDel) *)

\* the position in deletes of caller p's request on the table, 0 if none
RequestOf(p, table) ==
  IF \E i \in DOMAIN deletes : deletes[i].by = p /\ deletes[i].table = table
  THEN CHOOSE i \in DOMAIN deletes : deletes[i].by = p /\ deletes[i].table = table
  ELSE 0

\* C20: deleteWorkoutPlan orders its deletes: a call whose delete on
\* workout_plans has been issued has before that issued, and got the answer
\* of, the delete of the plan's plan_sessions rows; once the session delete is
\* answered, with success or not, the call goes on to the plan delete, and a
\* trainer's finished call has issued both, each once, for the id it was given.
C20_SessionsBeforePlan ==
  /\ \A r \in StoredPlans \ workout_plans :
       \E i, j \in DOMAIN deletes :
         /\ i < j
         /\ deletes[i].by = deletes[j].by
         /\ deletes[i].table = "plan_sessions" /\ deletes[i].id = r.id
         /\ deletes[j].table = "workout_plans" /\ deletes[j].id = r.id /\ deletes[j].ok
  /\ \A p \in Callers :
    /\ RequestOf(p, "workout_plans") # 0 =>
         /\ RequestOf(p, "plan_sessions") # 0
         /\ RequestOf(p, "plan_sessions") < RequestOf(p, "workout_plans")
    /\ (pc[p] \in {"idle", "dwp_profile", "dwp_sessions"}) => DeletesBy(p) = <<>>
    /\ pc[p] = "dwp_plan" =>
         /\ Len(DeletesBy(p)) = 1
         /\ DeletesBy(p)[1].table = "plan_sessions"
         /\ DeletesBy(p)[1].id = arg[p].id
    /\ (pc[p] = "done" /\ ~NotTrainer(profile)) =>
         /\ Len(DeletesBy(p)) = 2
         /\ DeletesBy(p)[1].table = "plan_sessions"
         /\ DeletesBy(p)[2].table = "workout_plans"
         /\ DeletesBy(p)[1].id = arg[p].id /\ DeletesBy(p)[2].id = arg[p].id

\* the session delete failed, and the plan row was deleted all the same
C20_Witness ==
  \E p \in Callers :
    /\ pc[p] = "done" /\ result[p] = "true"
    /\ arg[p].id = "P1"
    /\ DeletesBy(p) = <<DeleteRequest(p, "plan_sessions", "P1", FALSE),
                        DeleteRequest(p, "workout_plans", "P1", TRUE)>>
    /\ workout_plans = {PlanRow("P2", "U2")}
    /\ RowsOf(plan_sessions, "P1") # <<>>

\* there is no current profile, or its role is not 'trainer'
CallerIsNoTrainer == profile = NoProfile \/ profile.role # "trainer"

\* C21: deleteWorkoutPlan called with no current profile, or with a profile
\* whose role is not 'trainer', returns false and issues no delete:
\* plan_sessions and workout_plans stay as they are.
C21_NotTrainerNoDelete ==
  /\ [](CallerIsNoTrainer =>
          /\ deletes = <<>>
          /\ \A p \in Callers :
               /\ pc[p] \in {"idle", "dwp_profile", "done"}
               /\ pc[p] = "done" => result[p] = "false")
  /\ [][CallerIsNoTrainer =>
          /\ plan_sessions' = plan_sessions
          /\ workout_plans' = workout_plans]_vars

\* a client's call for a stored plan with sessions is over
C21_Witness ==
  \E p \in Callers :
    /\ profile = Profile("U3", "client")
    /\ pc[p] = "done" /\ result[p] = "false"
    /\ arg[p].id = "P1"
    /\ deletes = <<>>
    /\ workout_plans = StoredPlans
    /\ RowsOf(plan_sessions, "P1") # <<>>

\* C22: whenever deleteWorkoutPlan has returned true the store holds neither
\* the workout_plans row with id = planId nor any plan_sessions row with
\* plan_id = planId.
C22_TrueMeansGone ==
  \A p \in Callers :
    (pc[p] = "done" /\ result[p] = "true") =>
      /\ \A r \in workout_plans : r.id # arg[p].id
      /\ RowsOf(plan_sessions, arg[p].id) = <<>>

\* the trainer who owns the stored plan id, "" if the plan is not stored
OwnerOf(id) ==
  IF \E r \in StoredPlans : r.id = id
  THEN (CHOOSE r \in StoredPlans : r.id = id).trainer_id
  ELSE ""

\* C23: a trainer calling deleteWorkoutPlan with the id of a plan of another
\* trainer changes nothing that belongs to that plan: no step removes the
\* plan row or any of the plan's plan_sessions rows.
C23_OtherTrainersPlanIntact ==
  [][\A id \in PlanIds :
       (~CallerIsNoTrainer /\ OwnerOf(id) # profile.id) =>
         /\ (\E r \in workout_plans : r.id = id) => (\E r \in workout_plans' : r.id = id)
         /\ RowsOf(plan_sessions', id) = RowsOf(plan_sessions, id)]_vars

----------------------------------------------------------------------------
(* Properties of createWorkoutPlan, getWorkoutPlans and                     *)
(* getTrainerTrainingSessions (specification SpecApi)                       *)

\* the function caller p has called
CalledCreate(p) == "name" \in DOMAIN arg[p]

CalledGetPlans(p) == "fn" \in DOMAIN arg[p] /\ arg[p].fn = "getWorkoutPlans"

CalledTrainerSessions(p) == "trainerId" \in DOMAIN arg[p]

\* the training_sessions rows of the trainer within the given bounds
SessionsWanted(a) ==
  {r \in training_sessions :
     /\ r.trainer_id = a.trainerId
     /\ IF a.startDate = NoDate THEN TRUE ELSE DateLE(a.startDate, r.scheduled_date)
     /\ IF a.endDate = NoDate THEN TRUE ELSE DateLE(r.scheduled_date, a.endDate)}

\* C24: getTrainerTrainingSessions(trainerId, startDate?, endDate?) returns
\* every training_sessions row of that trainer with scheduled_date within the
\* bounds, each once, in ascending scheduled_date order; in particular the
\* result is not empty when such rows exist.
C24_TrainerSessions ==
  \A p \in Procs :
    (pc[p] = "done" /\ CalledTrainerSessions(p)) =>
      /\ {result[p][i].id : i \in DOMAIN result[p]} =
           {r.id : r \in SessionsWanted(arg[p])}
      /\ Len(result[p]) = Cardinality(SessionsWanted(arg[p]))
      /\ \A i, j \in DOMAIN result[p] :
           i < j => DateLE(result[p][i].scheduled_date, result[p][j].scheduled_date)

\* there is no current profile, or its role is not 'trainer' (SpecApi)
NoTrainerProfile == profile = NoProfile \/ profile.role # "trainer"

\* C26: createWorkoutPlan inserts a plan only when the current profile
\* exists and has role 'trainer' (otherwise it sends no insert and returns
\* null); every plan it inserts has status 'draft' and the caller's profile
\* id as trainer_id, whatever planData carries, and is what it returns.
C26_CreateAsTrainerDraft ==
  \A p \in Procs :
    CalledCreate(p) =>
      /\ NoTrainerProfile =>
           /\ workout_plans = ApiPlans
           /\ \A i \in DOMAIN requests : requests[i].op # "insert"
           /\ pc[p] = "done" => result[p] = {}
      /\ \A r \in workout_plans \ ApiPlans :
           /\ r.status = "draft"
           /\ r.trainer_id = profile.id
           /\ pc[p] = "done" /\ result[p] = {r}
           /\ r.client_id = arg[p].client_id
      /\ pc[p] = "done" => result[p] \subseteq workout_plans \ ApiPlans

\* planData came with a trainer_id and a status of its own
C26_Witness ==
  \E p \in Procs :
    /\ pc[p] = "done" /\ CalledCreate(p)
    /\ profile = Profile("U1", "trainer")
    /\ "trainer_id" \in DOMAIN arg[p] /\ arg[p].trainer_id = "U2"
    /\ "status" \in DOMAIN arg[p] /\ arg[p].status = "completed"
    /\ \E r \in workout_plans \ ApiPlans :
         r.trainer_id = "U1" /\ r.status = "draft" /\ r.client_id = "U4"

\* C27: getWorkoutPlans discloses only the caller's own plans: to a trainer
\* plans with trainer_id = the caller's profile id, to a client plans with
\* client_id = the caller's profile id; with no profile or any other role
\* the result is empty and no plan query is sent.
C27_OwnPlansOnly ==
  \A p \in Procs :
    CalledGetPlans(p) =>
      /\ (profile = NoProfile \/ profile.role \notin {"trainer", "client"}) =>
           /\ requests = <<>>
           /\ pc[p] = "done" => result[p] = {}
      /\ (pc[p] = "done" /\ profile.role = "trainer") =>
           \A r \in result[p] : r \in ApiPlans /\ r.trainer_id = profile.id
      /\ (pc[p] = "done" /\ profile.role = "client") =>
           \A r \in result[p] : r \in ApiPlans /\ r.client_id = profile.id

\* a client got the plans assigned to them, and not all plans
C27_Witness ==
  \E p \in Procs :
    /\ pc[p] = "done" /\ CalledGetPlans(p)
    /\ profile = Profile("U3", "client")
    /\ result[p] = {r \in ApiPlans : r.client_id = "U3"}
    /\ Cardinality(result[p]) = 2

----------------------------------------------------------------------------
(* Properties of the template functions (specifications SpecTpl, SpecRead) *)

\* how many rows of the table have the name
NameCount(table, name) == Cardinality({i \in DOMAIN table : table[i].name = name})

\* C25: initializeDefaultTemplates installs the defaults at most once: after
\* any number of calls, one after the other or at once, and with any pattern
\* of insert failures, each default exercise name and each default template
\* name is stored at most once.
C25_DefaultsAtMostOnce ==
  /\ \A k \in DOMAIN DefaultExerciseNames :
       NameCount(exercises, DefaultExerciseNames[k]) <= 1
  /\ \A k \in DOMAIN DefaultTemplates :
       NameCount(workout_templates, DefaultTemplates[k].name) <= 1

\* the templates a finished reader has returned
TemplatesReturned(p) ==
  IF arg[p].fn = "getWorkoutTemplate"
  THEN result[p]
  ELSE {result[p][i] : i \in DOMAIN result[p]}

FinishedReader(p) ==
  /\ pc[p] = "done"
  /\ arg[p].fn \in {"getWorkoutTemplates", "getWorkoutTemplate",
                    "getWorkoutTemplatesForClient"}

\* the element has the fields of TemplateExercise, taken from its template
\* and its exercise
HasTemplateExerciseShape(t, e) ==
  /\ {"id", "template_id", "exercise_id", "exercise", "order_index"} \subseteq DOMAIN e
  /\ e.template_id = t.id
  /\ e.exercise_id = e.exercise.id

====
